---- MODULE Spec2Model ----
(***************************************************************************)
(* A model of the Sejm audit tool (src/main.py): the resilient fetcher     *)
(* robust_request, the ForensicScanner matcher/scorer, the crawl worker    *)
(* worker_process / process_file_content and the main() collection loop    *)
(* with its periodic and final flush.                                      *)
(*                                                                         *)
(* and of the process downloader (src/sejm_process_downloader.py).         *)
(*                                                                         *)
(* Seven specifications share the module:                                  *)
(*   SpecFetch  one call of robust_request against an arbitrary server     *)
(*   SpecScan   one run of ForensicScanner over a document                 *)
(*   Spec       one whole run of main()                                    *)
(*   SpecWorker one call of worker_process on an arbitrary descriptor      *)
(*   SpecFile   one call of process_file_content on an arbitrary file      *)
(*   SpecSteps  a run of main() with the loop body taken line by line,     *)
(*              the pool threads running between any two lines             *)
(*   SpecDownload  one run of SejmProcessDownloader: fetch_process_info    *)
(*              and build_tree, one download at a time                     *)
(***************************************************************************)
EXTENDS Integers, Sequences, FiniteSets, TLC

VARIABLES
    \* ---- robust_request (one call)
    rq_pc,        \* "loop" while inside the for loop, "done" after return
    rq_retries,   \* the retries argument
    rq_attempt,   \* the loop variable attempt of the next iteration
    rq_gets,      \* number of requests.get calls issued so far
    rq_hist,      \* what each requests.get produced, in order
    rq_result,    \* the returned value
    \* ---- ForensicScanner (one document)
    sc_pc,        \* "start", "scanned" (after the scan_* stage), "done"
    file_doc,     \* the document behind file_bytes: its text layer and
                  \* what its rendered pages / embedded images show
    file_fault,   \* which library call fails on these bytes, if any
    ext,          \* self.ext
    logic_text,   \* self.logic_text
    visual_text,  \* self.visual_text
    risk,         \* self.risk
    vectors,      \* self.vectors
    alerts,       \* self.alerts
    found_cats,   \* found_cats of analyze_results
    sc_result,    \* the value returned by run()
    \* ---- main()
    m_pc,         \* "loop" inside the as_completed loop, "done" after the
                  \* last line of main, "aborted" when an interrupt left it;
                  \* line by line also "check" (before line 675) and
                  \* "saved" (between lines 676 and 677)
    tasks,        \* the list tasks: (proc, term, global_idx)
    futures,      \* per task: the state of its future and its outcome
    collected,    \* the futures as_completed has already yielded
    completed,    \* the counter completed
    buffer_rows,  \* buffer_rows
    batch_counter,\* batch_counter
    segments,     \* the files save_batch_to_disk has written, in order
    appended,     \* history: every row ever put into buffer_rows, in order
    \* ---- worker_process (one call)
    wk_pc,        \* "call" on entry, "returned" / "raised" after it
    wk_proc,      \* the argument proc, with the API's answers for it
    wk_term,      \* the argument term
    wk_idx,       \* the argument proc_idx
    wk_rows,      \* the returned list rows
    \* ---- process_file_content (one call)
    pf_pc,        \* "call" on entry, "returned" after it
    pf_content,   \* the argument content
    pf_filename,  \* the argument filename
    pf_file_id,   \* the argument file_id
    pf_url,       \* the argument url
    pf_rows,      \* the returned list
    \* ---- SejmProcessDownloader (one run)
    dl_pc,        \* "start" before fetch_process_info, "print" at line
                  \* 301, "attachment" at line 321, "scraped" at line
                  \* 358, "done" after build_tree, "failed" when run
                  \* returned False
    all_prints,   \* self.all_prints
    scraped_documents, \* self.process_data['scraped_documents']
    filename_counter,  \* SejmProcessDownloader._filename_counter
    dl_idx,       \* position in all_prints / in scraped_docs
    dl_att,       \* position in the attachments of the current print
    dl_cur,       \* print_data['attachments'] of the current print
    dl_attachments, \* self.attachments: every att_node, in order
    disk          \* the files under output_dir: path and content

fetchVars == <<rq_pc, rq_retries, rq_attempt, rq_gets, rq_hist, rq_result>>

scanVars == <<sc_pc, file_doc, file_fault, ext, logic_text, visual_text,
              risk, vectors, alerts, found_cats, sc_result>>

runVars == <<m_pc, tasks, futures, collected, completed, buffer_rows,
             batch_counter, segments, appended>>

workerVars == <<wk_pc, wk_proc, wk_term, wk_idx, wk_rows>>

fileVars == <<pf_pc, pf_content, pf_filename, pf_file_id, pf_url, pf_rows>>

downloadVars == <<dl_pc, all_prints, scraped_documents, filename_counter,
                  dl_idx, dl_att, dl_cur, dl_attachments, disk>>

vars == <<fetchVars, scanVars, runVars, workerVars, fileVars, downloadVars>>

\* what a step of one component leaves alone
FetchFrame == UNCHANGED <<scanVars, runVars, workerVars, fileVars, downloadVars>>

ScanFrame == UNCHANGED <<fetchVars, runVars, workerVars, fileVars, downloadVars>>

RunFrame == UNCHANGED <<fetchVars, scanVars, workerVars, fileVars, downloadVars>>

WorkerFrame == UNCHANGED <<fetchVars, scanVars, runVars, fileVars, downloadVars>>

FileFrame == UNCHANGED <<fetchVars, scanVars, runVars, workerVars, downloadVars>>

DownloadFrame == UNCHANGED <<fetchVars, scanVars, runVars, workerVars, fileVars>>

(***************************************************************************)
(* Generic helpers                                                         *)
(***************************************************************************)
Range(s) == {s[i] : i \in DOMAIN s}

Min(a, b) == IF a < b THEN a ELSE b

(***************************************************************************)
(* robust_request(url, retries=3, timeout=120)            main.py 200-252  *)
(***************************************************************************)

\* Largest retries argument explored (the program always uses the default 3).
MaxRetries == 3

\* HTTP status codes the server may answer with.
Statuses == {200, 429, 404, 500}

\* Exceptions requests.get may raise: the three except clauses.
Exceptions == {"ProxyError", "Timeout", "Exception"}

Resp(s) == [kind |-> "resp", status |-> s]
Raised(e) == [kind |-> "raise", exc |-> e]
None == [kind |-> "None"]
Pending == [kind |-> "pending"]

\* for attempt in range(retries): the loop has another iteration
RangeHasNextOffByOne(attempt, retries) == attempt < retries - 1
RangeHasNext(attempt, retries) == attempt < retries

\* if attempt < retries - 1: wait and try again (lines 217, 226, 235, 244)
NeverRetry(attempt, retries) == FALSE
ShouldRetry(attempt, retries) == attempt < retries - 1

\* lines 207-211: continue after a 429 takes the next value of range(retries)
RateLimitNotCounted(attempt) == attempt
AfterRateLimit(attempt) == attempt + 1

FetchInit ==
    /\ rq_pc = "loop"
    /\ rq_retries \in 0..MaxRetries
    /\ rq_attempt = 0
    /\ rq_gets = 0
    /\ rq_hist = <<>>
    /\ rq_result = Pending

FetchIdle ==
    /\ rq_pc = "idle"
    /\ rq_retries = 0
    /\ rq_attempt = 0
    /\ rq_gets = 0
    /\ rq_hist = <<>>
    /\ rq_result = Pending

\* One iteration in which requests.get answers 429: sleep, continue.
GetRateLimited ==
    /\ rq_pc = "loop"
    /\ FetchFrame
    /\ RangeHasNext(rq_attempt, rq_retries)
    /\ rq_gets' = rq_gets + 1
    /\ rq_hist' = Append(rq_hist, Resp(429))
    /\ rq_attempt' = AfterRateLimit(rq_attempt)
    /\ UNCHANGED <<rq_pc, rq_retries, rq_result>>

\* One iteration in which requests.get answers 200: return resp.
GetOk ==
    /\ rq_pc = "loop"
    /\ FetchFrame
    /\ RangeHasNext(rq_attempt, rq_retries)
    /\ rq_gets' = rq_gets + 1
    /\ rq_hist' = Append(rq_hist, Resp(200))
    /\ rq_result' = Resp(200)
    /\ rq_pc' = "done"
    /\ UNCHANGED <<rq_retries, rq_attempt>>

\* One iteration in which requests.get answers another status:
\* wait and continue unless this was the last attempt, then return resp.
GetOtherStatus ==
    /\ rq_pc = "loop"
    /\ FetchFrame
    /\ RangeHasNext(rq_attempt, rq_retries)
    /\ \E s \in Statuses \ {200, 429} :
        /\ rq_gets' = rq_gets + 1
        /\ rq_hist' = Append(rq_hist, Resp(s))
        /\ IF ShouldRetry(rq_attempt, rq_retries)
              THEN /\ rq_attempt' = rq_attempt + 1
                   /\ UNCHANGED <<rq_pc, rq_result>>
              ELSE /\ rq_result' = Resp(s)
                   /\ rq_pc' = "done"
                   /\ UNCHANGED rq_attempt
    /\ UNCHANGED rq_retries

\* One iteration in which requests.get raises: the three except clauses
\* behave alike, wait unless this was the last attempt, then return None.
GetRaises ==
    /\ rq_pc = "loop"
    /\ FetchFrame
    /\ RangeHasNext(rq_attempt, rq_retries)
    /\ \E e \in Exceptions :
        /\ rq_gets' = rq_gets + 1
        /\ rq_hist' = Append(rq_hist, Raised(e))
        /\ IF ShouldRetry(rq_attempt, rq_retries)
              THEN /\ rq_attempt' = rq_attempt + 1
                   /\ UNCHANGED <<rq_pc, rq_result>>
              ELSE /\ rq_result' = None
                   /\ rq_pc' = "done"
                   /\ UNCHANGED rq_attempt
    /\ UNCHANGED rq_retries

\* range(retries) is exhausted: the return None after the loop (line 252).
LoopExhausted ==
    /\ rq_pc = "loop"
    /\ FetchFrame
    /\ ~RangeHasNext(rq_attempt, rq_retries)
    /\ rq_result' = None
    /\ rq_pc' = "done"
    /\ UNCHANGED <<rq_retries, rq_attempt, rq_gets, rq_hist>>

FetchNext ==
    \/ GetRateLimited
    \/ GetOk
    \/ GetOtherStatus
    \/ GetRaises
    \/ LoopExhausted


(***************************************************************************)
(* Text.  A text is a sequence of characters; a character is a one-letter  *)
(* string, and "s_acute" / "S_acute" stand for the letters U+015B / U+015A *)
(* (s with acute), which the module's character set cannot spell.          *)
(***************************************************************************)
LowerLetters == {"a", "b", "c", "e", "f", "i", "k", "l", "m", "s", "t",
                 "u", "w", "y"}

Digits == {"0", "2", "3", "5"}

\* unidecode(text): transliteration to ASCII, character by character
unidecode_char(c) ==
    CASE c = "s_acute" -> "s"
      [] c = "S_acute" -> "S"
      [] OTHER -> c

\* str.lower(), character by character
lower_char(c) ==
    CASE c = "A" -> "a"
      [] c = "F" -> "f"
      [] c = "K" -> "k"
      [] c = "M" -> "m"
      [] c = "S" -> "s"
      [] c = "S_acute" -> "s_acute"
      [] OTHER -> c

unidecode(t) == [i \in DOMAIN t |-> unidecode_char(t[i])]

lower(t) == [i \in DOMAIN t |-> lower_char(t[i])]

\* the characters re.sub(r'[^a-z0-9\s]', '', ...) keeps
KeptByRegex(c) == c \in LowerLetters \cup Digits \cup {" "}

strip_nonalnum(t) == SelectSeq(t, KeptByRegex)

\* Python's  a in b  on strings
IsSubstr(a, b) ==
    \E i \in 0..(Len(b) - Len(a)) : SubSeq(b, i + 1, i + Len(a)) = a

(***************************************************************************)
(* SEMANTIC_TRIGGERS                                      main.py 99-113   *)
(* Six of the 56 terms, in list order: the two spellings of f-35 and of    *)
(* mysliwiec (one with punctuation, one with a diacritic), k2, and fa-50,  *)
(* which the list holds with its hyphen only.                              *)
(***************************************************************************)
T_f_35 == <<"f", "-", "3", "5">>
T_f35 == <<"f", "3", "5">>
T_mysliwiec_diacritic == <<"m", "y", "s_acute", "l", "i", "w", "i", "e", "c">>
T_mysliwiec == <<"m", "y", "s", "l", "i", "w", "i", "e", "c">>
T_k2 == <<"k", "2">>
T_fa_50 == <<"f", "a", "-", "5", "0">>

Categories == <<"MILITARY_DEFENSE">>

SEMANTIC_TRIGGERS ==
    [MILITARY_DEFENSE |->
        <<T_f_35, T_f35, T_mysliwiec_diacritic, T_mysliwiec, T_k2, T_fa_50>>]

AllTerms == UNION {Range(SEMANTIC_TRIGGERS[c]) : c \in Range(Categories)}

(***************************************************************************)
(* Documents.  The text layer and the rendered text of a document are      *)
(* drawn from the texts made of at most MaxWords words.                    *)
(***************************************************************************)
MaxWords == 1

Words == { <<"F", "-", "3", "5">>,
           <<"K", "2">>,
           <<"F", "A", "-", "5", "0">>,
           <<"M", "y", "s_acute", "l", "i", "w", "i", "e", "c">>,
           <<"u", "s", "t", "a", "w", "a">> }

RECURSIVE TextsOfWords(_)
TextsOfWords(n) ==
    IF n = 0 THEN { <<>> }
    ELSE IF n = 1 THEN Words
    ELSE { t \o <<" ">> \o w : t \in TextsOfWords(n - 1), w \in Words }

Texts == UNION { TextsOfWords(n) : n \in 0..MaxWords }

Exts == {"pdf", "docx", "xlsx", "txt"}

\* Which library call fails on the bytes.  pdf: decrypt('') raises
\* ("locked"), decrypt('') returns although the password does not fit,
\* pypdf's PasswordType.NOT_DECRYPTED, a value line 294 discards
\* ("undecrypted"), PdfReader ("reader"), convert_from_bytes ("raster"),
\* the OCR engine on every image ("ocr"), page.extract_text ("extract");
\* docx / xlsx: the document parser ("decode").
FaultsOf(e) ==
    CASE e = "pdf" -> {"none", "locked", "undecrypted", "reader", "raster",
                       "ocr", "extract"}
      [] e \in {"docx", "xlsx"} -> {"none", "decode"}
      [] OTHER -> {"none"}

\* Largest number of terms fuzz.partial_ratio rates above 90 without a
\* literal occurrence.
MaxFuzzy == 1

(***************************************************************************)
(* ForensicScanner                                        main.py 258-420  *)
(***************************************************************************)
A_Locked == [kind |-> "LOCKED", vec |-> <<>>]
A_PdfError == [kind |-> "PDF_ERROR", vec |-> <<>>]
A_ExcelError == [kind |-> "EXCEL_ERROR", vec |-> <<>>]
A_ScanInWord == [kind |-> "SKAN_W_WORDZIE", vec |-> <<>>]
A_Injection(v) == [kind |-> "INJECTION", vec |-> v]
A_DeepRider(v) == [kind |-> "DEEP_RIDER", vec |-> v]
A_Military == [kind |-> "MILITARY_DEFENSE_CONTENT", vec |-> <<>>]

\* __init__ (259-268)
ScanInit ==
    /\ sc_pc = "start"
    /\ file_doc \in [logic : Texts, visual : Texts]
    /\ ext \in Exts
    /\ file_fault \in FaultsOf(ext)
    /\ logic_text = <<>>
    /\ visual_text = <<>>
    /\ risk = 0
    /\ vectors = <<>>
    /\ alerts = <<>>
    /\ found_cats = {}
    /\ sc_result = -1

ScanIdle ==
    /\ sc_pc = "idle"
    /\ file_doc = [logic |-> <<>>, visual |-> <<>>]
    /\ ext = "txt"
    /\ file_fault = "none"
    /\ logic_text = <<>>
    /\ visual_text = <<>>
    /\ risk = 0
    /\ vectors = <<>>
    /\ alerts = <<>>
    /\ found_cats = {}
    /\ sc_result = -1

\* ocr_cpu (270-281): the recognized lines of every image, each image
\* followed by a blank; an image without text adds nothing
ocr_cpu(shown) == IF shown = <<>> THEN <<>> ELSE shown \o <<" ">>

\* scan_pdf (283-331)
scan_pdf ==
    /\ sc_pc = "start"
    /\ ScanFrame
    /\ ext = "pdf"
    /\ sc_pc' = "scanned"
    /\ CASE file_fault = "locked" ->
              \* decrypt('') fails: locked alert, risk += 10, return
              /\ alerts' = Append(alerts, A_Locked)
              /\ risk' = risk + 10
              /\ UNCHANGED <<logic_text, visual_text>>
         [] file_fault = "undecrypted" ->
              \* decrypt('') returns, the scan goes on with a reader that
              \* holds no key: either convert_from_bytes raises on the
              \* encrypted bytes, or it renders and reader.pages raises
              \* inside the inner try (321-325)
              \E rendered \in BOOLEAN :
                 IF rendered
                    THEN /\ visual_text' = ocr_cpu(file_doc.visual)
                         /\ UNCHANGED <<risk, alerts, logic_text>>
                    ELSE /\ alerts' = Append(alerts, A_PdfError)
                         /\ UNCHANGED <<risk, logic_text, visual_text>>
         [] file_fault = "raster" ->
              \* convert_from_bytes raises before either text is assigned
              /\ alerts' = Append(alerts, A_PdfError)
              /\ UNCHANGED <<risk, logic_text, visual_text>>
         [] file_fault = "reader" ->
              \* PdfReader raises: reader stays None, OCR still runs
              /\ visual_text' = ocr_cpu(file_doc.visual)
              /\ UNCHANGED <<risk, alerts, logic_text>>
         [] file_fault = "ocr" ->
              \* ocr_cpu swallows the failure of every image
              /\ visual_text' = <<>>
              /\ logic_text' = logic_text \o file_doc.logic \o <<" ">>
              /\ UNCHANGED <<risk, alerts>>
         [] file_fault = "extract" ->
              \* page.extract_text raises on the first page
              /\ visual_text' = ocr_cpu(file_doc.visual)
              /\ UNCHANGED <<risk, alerts, logic_text>>
         [] OTHER ->
              /\ visual_text' = ocr_cpu(file_doc.visual)
              /\ logic_text' = logic_text \o file_doc.logic \o <<" ">>
              /\ UNCHANGED <<risk, alerts>>
    /\ UNCHANGED <<file_doc, file_fault, ext, vectors, found_cats, sc_result>>

\* scan_docx (333-357)
scan_docx ==
    /\ sc_pc = "start"
    /\ ScanFrame
    /\ ext = "docx"
    /\ sc_pc' = "scanned"
    /\ IF file_fault = "decode"
          THEN UNCHANGED <<logic_text, visual_text, alerts>>
          ELSE /\ logic_text' = logic_text \o file_doc.logic \o <<" ">>
               /\ \E has_images \in BOOLEAN :
                    IF has_images
                       THEN /\ visual_text' = visual_text \o ocr_cpu(file_doc.visual)
                            /\ alerts' = Append(alerts, A_ScanInWord)
                       ELSE UNCHANGED <<visual_text, alerts>>
    /\ UNCHANGED <<file_doc, file_fault, ext, risk, vectors, found_cats,
                   sc_result>>

\* scan_excel (359-366)
scan_excel ==
    /\ sc_pc = "start"
    /\ ScanFrame
    /\ ext = "xlsx"
    /\ sc_pc' = "scanned"
    /\ IF file_fault = "decode"
          THEN /\ alerts' = Append(alerts, A_ExcelError)
               /\ UNCHANGED logic_text
          ELSE /\ logic_text' = logic_text \o <<" ">> \o file_doc.logic \o <<" ">>
               /\ UNCHANGED alerts
    /\ UNCHANGED <<file_doc, file_fault, ext, visual_text, risk, vectors,
                   found_cats, sc_result>>

\* run(), the else branch: decode the bytes as text (414-418)
scan_other ==
    /\ sc_pc = "start"
    /\ ScanFrame
    /\ ext \notin {"pdf", "docx", "xlsx"}
    /\ sc_pc' = "scanned"
    /\ logic_text' = file_doc.logic
    /\ UNCHANGED <<file_doc, file_fault, ext, visual_text, risk, vectors,
                   alerts, found_cats, sc_result>>

\* ---- analyze_results (368-408)
clean_visual == lower(unidecode(visual_text))

clean_logic == lower(unidecode(logic_text))

combined_text == clean_visual \o <<" ">> \o clean_logic

clean_combined == strip_nonalnum(combined_text)

term_clean(term) == lower(unidecode(term))

\* fuzz.partial_ratio(term_clean, clean_combined) > 90 can hold only if the
\* two share a character; which of those terms it holds for is the
\* library's answer, fz.
FuzzyCandidates ==
    { t \in AllTerms : Range(term_clean(t)) \cap Range(clean_combined) # {} }

FuzzyAnswers ==
    { fz \in SUBSET FuzzyCandidates : Cardinality(fz) <= MaxFuzzy }

\* line 383
Matches(term, fz) == IsSubstr(term_clean(term), clean_combined) \/ term \in fz

\* the terms of one category that match, in list order
RECURSIVE MatchedOf(_, _)
MatchedOf(terms, fz) ==
    IF terms = <<>> THEN <<>>
    ELSE (IF Matches(Head(terms), fz) THEN <<Head(terms)>> ELSE <<>>)
            \o MatchedOf(Tail(terms), fz)

\* the loop of lines 379-386 over the categories cats
RECURSIVE MatchedVectors(_, _)
MatchedVectors(cats, fz) ==
    IF cats = <<>> THEN <<>>
    ELSE MatchedOf(SEMANTIC_TRIGGERS[Head(cats)], fz)
            \o MatchedVectors(Tail(cats), fz)

FoundCats(fz) ==
    { c \in Range(Categories) : MatchedOf(SEMANTIC_TRIGGERS[c], fz) # <<>> }

\* lines 391-392: the matched term itself is looked up in each channel
VecInChannel(vec, channel) == IsSubstr(vec, channel)

\* lines 390-402
RECURSIVE DiffAlerts(_)
DiffAlerts(vecs) ==
    IF vecs = <<>> THEN <<>>
    ELSE LET vec == Head(vecs)
             in_logic == VecInChannel(vec, clean_logic)
             in_visual == VecInChannel(vec, clean_visual)
         IN  (IF in_logic /\ ~in_visual THEN <<A_Injection(vec)>> ELSE <<>>)
             \o (IF in_visual /\ ~in_logic THEN <<A_DeepRider(vec)>> ELSE <<>>)
             \o DiffAlerts(Tail(vecs))

\* line 405
TwoCategoriesFound(cats) == Cardinality(cats) >= 2
CategoryAlertDue(cats) == "MILITARY_DEFENSE" \in cats

\* line 408
Unclamped(r) == r
ClampRisk(r) == Min(r, 10)

analyze_results ==
    /\ sc_pc = "scanned"
    /\ ScanFrame
    /\ \E fz \in FuzzyAnswers :
         LET vecs == vectors \o MatchedVectors(Categories, fz)
             diff == IF ext = "pdf" THEN DiffAlerts(vecs) ELSE <<>>
             cats == FoundCats(fz)
             r    == risk + 3 * Len(MatchedVectors(Categories, fz))
                          + 5 * Len(diff)
         IN  /\ vectors' = vecs
             /\ found_cats' = cats
             /\ alerts' = alerts \o diff
                            \o (IF CategoryAlertDue(cats) THEN <<A_Military>>
                                                          ELSE <<>>)
             /\ risk' = r
             /\ sc_result' = ClampRisk(r)
    /\ sc_pc' = "done"
    /\ UNCHANGED <<file_doc, file_fault, ext, logic_text, visual_text>>

ScanNext ==
    \/ scan_pdf
    \/ scan_docx
    \/ scan_excel
    \/ scan_other
    \/ analyze_results

(***************************************************************************)
(* Hierarchical identifiers                               main.py 144-157  *)
(***************************************************************************)
val == <<1000, 900, 500, 400, 100, 90, 50, 40, 10, 9, 5, 4, 1>>

syb == <<"M", "CM", "D", "CD", "C", "XC", "L", "XL", "X", "IX", "V", "IV", "I">>

\* the while loop of get_roman from position i on: syb[i] is appended
\* n // val[i] times, then i advances
RECURSIVE roman_from(_, _)
roman_from(n, i) ==
    IF n <= 0 THEN ""
    ELSE IF n >= val[i] THEN syb[i] \o roman_from(n - val[i], i)
    ELSE roman_from(n, i + 1)

get_roman(n) == roman_from(n, 1)

\* chr(65 + n) for n < 26
chr65 == <<"A", "B", "C", "D", "E", "F", "G", "H", "I", "J", "K", "L", "M",
           "N", "O", "P", "Q", "R", "S", "T", "U", "V", "W", "X", "Y", "Z">>

index_to_char_wrapping(n) == chr65[(n % 26) + 1]
index_to_char(n) == IF n < 26 THEN chr65[n + 1] ELSE "Z" \o ToString(n)

(***************************************************************************)
(* What the crawl meets: file names, file contents, the API's answers      *)
(***************************************************************************)
\* A file name  stem.ext ; a directory marker of an archive ends with "/"
FileName(stem, e) == [stem |-> stem, ext |-> e, dir |-> FALSE]

DirMarker(stem) == [stem |-> stem, ext |-> "", dir |-> TRUE]

NameStr(name) ==
    IF name.dir THEN name.stem \o "/" ELSE name.stem \o "." \o name.ext

\* filename.split('.')[-1].lower()
ExtOf(name) ==
    CASE name.dir -> NameStr(name)
      [] name.ext = "ZIP" -> "zip"
      [] name.ext = "PDF" -> "pdf"
      [] OTHER -> name.ext

\* Bytes that are no archive; scan tells whether extract_metadata /
\* ForensicScanner.run raise on them.
Bytes(scan) == [kind |-> "bytes", scan |-> scan]

\* Bytes of a zip archive with the given entries, in namelist() order.
ZipBytes(entries) == [kind |-> "zip", entries |-> entries]

\* An archive entry; readable is whether z.read succeeds on it.
Entry(name, content, readable) ==
    [name |-> name, content |-> content, readable |-> readable]

\* An attachment named in a print's metadata: robust_request for its bytes
\* answers 200 (fetch "ok") or fails; bad_name is a metadata entry that is
\* no string, on which process_file_content raises.
Att(name, fetch, content, bad_name) ==
    [name |-> name, fetch |-> fetch, content |-> content, bad_name |-> bad_name]

\* A print number of proc['prints'] with the API's answer for its
\* metadata: 200 with attachments ("ok"), None or another status ("fail"),
\* or a body on which .json() / .get raise ("raise").
PrintOf(nr, meta, attachments) ==
    [nr |-> nr, meta |-> meta, attachments |-> attachments]

\* A process descriptor of GET /term{T}/processes.
Proc(num, has_title, prints) ==
    [num |-> num, has_title |-> has_title, prints |-> prints]

API_URL == "https://api.sejm.gov.pl/sejm"

TERMS == <<9, 10>>

(***************************************************************************)
(* process_file_content                                   main.py 426-476  *)
(***************************************************************************)
Row(tree_id, status, drzewo, nazwa, link) ==
    [TREE_ID |-> tree_id, STATUS_SKANU |-> status, DRZEWO |-> drzewo,
     Nazwa_Pliku |-> nazwa, Link |-> link]

\* zipfile.ZipFile(...) opens and z.read succeeds on every entry that is
\* not a directory marker (lines 433-442)
ZipOpens(content) == content.kind = "zip"
ZipReadable(content) ==
    /\ content.kind = "zip"
    /\ \A i \in DOMAIN content.entries :
          content.entries[i].name.dir \/ content.entries[i].readable

\* lines 453-476: the single row of a file that is not expanded
SingleRow(content, filename, file_id, url) ==
    Row(file_id,
        IF content.kind = "bytes" /\ content.scan = "raise"
           THEN "SCAN ERROR" ELSE "OK",
        "FILE", NameStr(filename), url)

RECURSIVE process_file_content(_, _, _, _)
RECURSIVE ExpandEntries(_, _, _)

\* line 431: if ext == 'zip'
AnyExt(e) == TRUE
IsZipExt(e) == e = "zip"

\* line 441: if zip_file_name.endswith('/'): continue
SkipsNothing(name) == FALSE
SkipsEntry(name) == name.dir

\* the loop of lines 440-448 from entry i (1-based here, enumerate's i+1)
ExpandEntries(entries, i, file_id) ==
    IF i > Len(entries) THEN <<>>
    ELSE (IF SkipsEntry(entries[i].name) THEN <<>>
          ELSE process_file_content(entries[i].content, entries[i].name,
                                    file_id \o "." \o ToString(i), "wewn_zip"))
         \o ExpandEntries(entries, i + 1, file_id)

process_file_content(content, filename, file_id, url) ==
    IF IsZipExt(ExtOf(filename)) /\ ZipReadable(content)
       THEN <<Row(file_id, "OK (ZIP)", "ZIP", NameStr(filename), url)>>
                \o ExpandEntries(content.entries, 1, file_id)
       ELSE <<SingleRow(content, filename, file_id, url)>>

(***************************************************************************)
(* One call of process_file_content on a plain file or on an archive of    *)
(* at most MaxNodes entries, counted through every level of nesting.       *)
(***************************************************************************)
\* Most entries, over all levels, of the archive explored.
MaxNodes == 3

\* Entries that are no nested archive: a directory marker, a file, a file
\* whose scan raises, an entry z.read fails on, and an entry named .zip
\* whose bytes are no archive.
PlainEntries ==
    { Entry(DirMarker("dir"), Bytes("ok"), TRUE),
      Entry(FileName("x", "pdf"), Bytes("ok"), TRUE),
      Entry(FileName("y", "txt"), Bytes("raise"), TRUE),
      Entry(FileName("z", "pdf"), Bytes("ok"), FALSE),
      Entry(FileName("fake", "zip"), Bytes("ok"), TRUE) }

RECURSIVE EntryLists(_)
RECURSIVE EntriesOfSize(_)

\* the entries that count for k nodes: a plain entry, or a nested archive
\* holding k-1 nodes
EntriesOfSize(k) ==
    (IF k = 1 THEN PlainEntries ELSE {})
      \cup { Entry(FileName("in", "ZIP"), ZipBytes(es), TRUE) :
                es \in EntryLists(k - 1) }

\* the entry lists that count for exactly n nodes
EntryLists(n) ==
    IF n = 0 THEN { <<>> }
    ELSE UNION { { <<e>> \o r : e \in EntriesOfSize(k), r \in EntryLists(n - k) } :
                 k \in 1..n }

FileContents ==
    {Bytes("ok"), Bytes("raise")}
      \cup UNION { { ZipBytes(es) : es \in EntryLists(n) } : n \in 0..MaxNodes }

FileNames ==
    { FileName("pack", "zip"), FileName("pack", "ZIP"),
      FileName("doc", "pdf"), FileName("notes", "txt") }

FileInit ==
    /\ pf_pc = "call"
    /\ pf_content \in FileContents
    /\ pf_filename \in FileNames
    /\ pf_file_id \in {"I.1.A", "IV.2.Z26.3"}
    /\ pf_url \in {API_URL \o "/term10/prints/801/f", "wewn_zip"}
    /\ pf_rows = <<>>

FileIdle ==
    /\ pf_pc = "idle"
    /\ pf_content = Bytes("ok")
    /\ pf_filename = FileName("", "")
    /\ pf_file_id = ""
    /\ pf_url = ""
    /\ pf_rows = <<>>

\* ext == 'zip' and the whole with block succeeds: return rows (line 449)
ExpandsArchive ==
    /\ pf_pc = "call"
    /\ FileFrame
    /\ IsZipExt(ExtOf(pf_filename))
    /\ ZipReadable(pf_content)
    /\ pf_rows' = process_file_content(pf_content, pf_filename, pf_file_id, pf_url)
    /\ pf_pc' = "returned"
    /\ UNCHANGED <<pf_content, pf_filename, pf_file_id, pf_url>>

\* ext == 'zip' and the with block raises: except ... pass, then the
\* single-file part (lines 450-476)
ExpansionFails ==
    /\ pf_pc = "call"
    /\ FileFrame
    /\ IsZipExt(ExtOf(pf_filename))
    /\ ~ZipReadable(pf_content)
    /\ pf_rows' = process_file_content(pf_content, pf_filename, pf_file_id, pf_url)
    /\ pf_pc' = "returned"
    /\ UNCHANGED <<pf_content, pf_filename, pf_file_id, pf_url>>

\* ext is not 'zip': the single-file part only (lines 453-476)
SingleFile ==
    /\ pf_pc = "call"
    /\ FileFrame
    /\ ~IsZipExt(ExtOf(pf_filename))
    /\ pf_rows' = process_file_content(pf_content, pf_filename, pf_file_id, pf_url)
    /\ pf_pc' = "returned"
    /\ UNCHANGED <<pf_content, pf_filename, pf_file_id, pf_url>>

FileNext ==
    \/ ExpandsArchive
    \/ ExpansionFails
    \/ SingleFile

(***************************************************************************)
(* worker_process                                         main.py 478-526  *)
(***************************************************************************)
\* lines 516-520: after the DOWNLOAD ERROR row is appended the for loop
\* takes the next attachment; rest is what the later iterations yield
SiblingsAborted(rest) == [rows |-> <<>>, raised |-> FALSE]
AfterDownloadError(rest) == rest

\* The attachment loop of lines 507-520 from attachment f_i on.  The result
\* holds the rows appended and whether an exception ended the loop.
RECURSIVE AttachmentLoop(_, _, _, _, _)
AttachmentLoop(atts, f_i, print_id, term, print_nr) ==
    IF f_i >= Len(atts) THEN [rows |-> <<>>, raised |-> FALSE]
    ELSE LET att == atts[f_i + 1]
             file_id == print_id \o "." \o index_to_char(f_i)
             url == API_URL \o "/term" \o ToString(term) \o "/prints/"
                       \o print_nr \o "/" \o NameStr(att.name)
             rest == AttachmentLoop(atts, f_i + 1, print_id, term, print_nr)
         IN  IF att.fetch = "ok"
                THEN IF att.bad_name
                        THEN [rows |-> <<>>, raised |-> TRUE]
                        ELSE [rows |-> process_file_content(att.content,
                                           att.name, file_id, url) \o rest.rows,
                              raised |-> rest.raised]
                ELSE [rows |-> <<Row(file_id, "DOWNLOAD ERROR", "DOWNLOAD_ERROR",
                                      NameStr(att.name), url)>>
                                 \o AfterDownloadError(rest).rows,
                      raised |-> AfterDownloadError(rest).raised]

\* STATUS_SKANU of a print's row: "" (line 495) unless the metadata fetch
\* gave no response or another status than 200 (lines 502-503)
PrintStatusBlank(meta) == ""
PrintStatus(meta) == IF meta = "fail" THEN "API ERROR" ELSE ""

\* str(e) of what a print's handling raises: meta_resp.json() on a body
\* that is no JSON, or filename.split on an entry that is no string
ErrorOf(p) == IF p.meta = "raise" THEN "json" ELSE "split"

\* line 523: process_status = f"ERROR: {str(e)}" in the except clause
FirstErrorKept(status, raised, err) ==
    IF raised /\ status = "OK" THEN "ERROR: " \o err ELSE status
ProcessStatus(status, raised, err) ==
    IF raised THEN "ERROR: " \o err ELSE status

\* The print loop of lines 492-523 from print p_i on, entered with
\* process_status = status.  The result holds the rows appended and the
\* final process_status.
RECURSIVE PrintLoop(_, _, _, _, _)
PrintLoop(prints, p_i, roman_id, term, status) ==
    IF p_i > Len(prints) THEN [rows |-> <<>>, status |-> status]
    ELSE LET p == prints[p_i]
             print_id == roman_id \o "." \o ToString(p_i)
             body == IF p.meta = "ok"
                        THEN AttachmentLoop(p.attachments, 0, print_id, term, p.nr)
                        ELSE [rows |-> <<>>, raised |-> p.meta = "raise"]
             print_row == Row(print_id, PrintStatus(p.meta), "PRINT", "", "")
             rest == PrintLoop(prints, p_i + 1, roman_id, term,
                               ProcessStatus(status, body.raised, ErrorOf(p)))
         IN  [rows |-> <<print_row>> \o body.rows \o rest.rows,
              status |-> rest.status]

\* worker_process(proc, term, proc_idx): the rows returned, or raised when
\* the header row cannot be built (proc['title'] of a descriptor without a
\* title, line 486, outside every try).
worker_process_no_header(proc, term, proc_idx) ==
    [raised |-> FALSE,
     rows |-> PrintLoop(proc.prints, 1, get_roman(proc_idx), term, "OK").rows]
worker_process(proc, term, proc_idx) ==
    LET roman_id == get_roman(proc_idx)
        loop == PrintLoop(proc.prints, 1, roman_id, term, "OK")
        header == Row(roman_id, loop.status, "PROCESS", "",
                      "https://sejm.gov.pl/Sejm" \o ToString(term)
                          \o ".nsf/przebieg.xsp?id=" \o proc.num)
    IN  IF proc.has_title
           THEN [raised |-> FALSE, rows |-> <<header>> \o loop.rows]
           ELSE [raised |-> TRUE, rows |-> <<>>]

(***************************************************************************)
(* One call of worker_process on a descriptor made of at most MaxItems     *)
(* prints and attachments.                                                 *)
(***************************************************************************)
\* Most prints and attachments, together, of the descriptor explored.
MaxItems == 4

\* What an attachment may be: a file that downloads and scans, a failed
\* download, a metadata entry that is no file name, a corrupt archive.
AttKinds ==
    { Att(FileName("a", "pdf"), "ok", Bytes("ok"), FALSE),
      Att(FileName("b", "docx"), "fail", Bytes("ok"), FALSE),
      Att(FileName("d", "pdf"), "ok", Bytes("ok"), TRUE),
      Att(FileName("broken", "zip"), "ok",
          ZipBytes(<< Entry(FileName("x", "pdf"), Bytes("ok"), TRUE),
                      Entry(FileName("z", "pdf"), Bytes("ok"), FALSE) >>),
          FALSE) }

\* the prints that count for s items: the print and its s-1 attachments
PrintsOfSize(s) ==
    (IF s = 1 THEN {PrintOf("801", "fail", <<>>), PrintOf("801", "raise", <<>>)}
              ELSE {})
      \cup { PrintOf("801", "ok", a) : a \in [1..(s - 1) -> AttKinds] }

\* the print lists that count for exactly n items
RECURSIVE PrintLists(_)
PrintLists(n) ==
    IF n = 0 THEN { <<>> }
    ELSE UNION { { <<p>> \o r : p \in PrintsOfSize(s), r \in PrintLists(n - s) } :
                 s \in 1..n }

WorkerProcs ==
    UNION { { Proc("8", has_title, ps) :
                has_title \in BOOLEAN, ps \in PrintLists(n) } : n \in 0..MaxItems }

WorkerInit ==
    /\ wk_pc = "call"
    /\ wk_proc \in WorkerProcs
    /\ wk_term \in Range(TERMS)
    /\ wk_idx \in {1, 4}
    /\ wk_rows = <<>>

WorkerIdle ==
    /\ wk_pc = "idle"
    /\ wk_proc = Proc("", TRUE, <<>>)
    /\ wk_term = 0
    /\ wk_idx = 0
    /\ wk_rows = <<>>

\* worker_process runs to its return (line 526)
WorkerReturns ==
    /\ wk_pc = "call"
    /\ WorkerFrame
    /\ LET res == worker_process(wk_proc, wk_term, wk_idx)
       IN  /\ ~res.raised
           /\ wk_rows' = res.rows
    /\ wk_pc' = "returned"
    /\ UNCHANGED <<wk_proc, wk_term, wk_idx>>

\* worker_process is left by an exception: nothing is returned
WorkerRaises ==
    /\ wk_pc = "call"
    /\ WorkerFrame
    /\ worker_process(wk_proc, wk_term, wk_idx).raised
    /\ wk_pc' = "raised"
    /\ UNCHANGED <<wk_proc, wk_term, wk_idx, wk_rows>>

WorkerNext ==
    \/ WorkerReturns
    \/ WorkerRaises

(***************************************************************************)
(* The processes a run may meet.  Each descriptor carries the answers the  *)
(* API gives for its prints and attachments during the run.                *)
(***************************************************************************)
\* Attachments of the widest print explored (past the 26 letters).
MaxAttachments == 27

\* Most processes GET /term{T}/processes returns over all terms.
MaxProcs == 2

PlainPdf == Att(FileName("a", "pdf"), "ok", Bytes("ok"), FALSE)

\* a descriptor without a title
P_NoTitle == Proc("1", FALSE, <<>>)

\* a process without prints
P_NoPrints == Proc("2", TRUE, <<>>)

\* metadata fetch fails for one print, the metadata of the next is garbage
P_PrintErrors ==
    Proc("3", TRUE, << PrintOf("31", "fail", <<>>),
                       PrintOf("32", "raise", <<>>),
                       PrintOf("33", "ok", <<PlainPdf>>) >>)

\* a scanned file, a failed download, a file whose scan raises, and a
\* metadata entry that is no file name
P_Files ==
    Proc("4", TRUE,
         << PrintOf("41", "ok",
                << PlainPdf,
                   Att(FileName("b", "docx"), "fail", Bytes("ok"), FALSE),
                   Att(FileName("c", "xlsx"), "ok", Bytes("raise"), FALSE),
                   Att(FileName("d", "pdf"), "ok", Bytes("ok"), TRUE),
                   PlainPdf >>) >>)

\* an archive with a directory marker, a file, a nested archive, an entry
\* named .zip that is no archive; and an archive with an unreadable entry
P_Zip ==
    Proc("5", TRUE,
         << PrintOf("51", "ok",
                << Att(FileName("pack", "zip"), "ok",
                       ZipBytes(<< Entry(DirMarker("dir"), Bytes("ok"), TRUE),
                                   Entry(FileName("x", "pdf"), Bytes("ok"), TRUE),
                                   Entry(FileName("in", "ZIP"),
                                         ZipBytes(<< Entry(FileName("y", "txt"),
                                                          Bytes("ok"), TRUE) >>),
                                         TRUE),
                                   Entry(FileName("fake", "zip"), Bytes("ok"), TRUE) >>),
                       FALSE),
                   Att(FileName("broken", "zip"), "ok",
                       ZipBytes(<< Entry(FileName("x", "pdf"), Bytes("ok"), TRUE),
                                   Entry(FileName("z", "pdf"), Bytes("ok"), FALSE) >>),
                       FALSE) >>) >>)

\* one print with MaxAttachments attachments
P_Wide ==
    Proc("6", TRUE,
         << PrintOf("61", "ok", [i \in 1..MaxAttachments |-> PlainPdf]) >>)

SampleProcs == {P_NoTitle, P_NoPrints, P_PrintErrors, P_Files, P_Zip, P_Wide}

SeqsUpTo(S, n) == UNION { [1..k -> S] : k \in 0..n }

(***************************************************************************)
(* main                                                   main.py 632-682  *)
(***************************************************************************)
\* lines 645-647 for the processes of one term, global_idx running on
RECURSIVE TasksOfTerm(_, _, _)
TasksOfTerm(procs, term, global_idx) ==
    IF procs = <<>> THEN <<>>
    ELSE <<[proc |-> Head(procs), term |-> term, idx |-> global_idx]>>
            \o TasksOfTerm(Tail(procs), term, global_idx + 1)

\* lines 640-647
RECURSIVE BuildTasks(_, _, _)
BuildTasks(procs_by_term, k, global_idx) ==
    IF k > Len(TERMS) THEN <<>>
    ELSE TasksOfTerm(procs_by_term[k], TERMS[k], global_idx)
            \o BuildTasks(procs_by_term, k + 1,
                          global_idx + Len(procs_by_term[k]))

NoResult == [raised |-> FALSE, rows |-> <<>>]

\* lines 640-661: the tasks are built and submitted
MainInit ==
    /\ \E procs_by_term \in [DOMAIN TERMS -> SeqsUpTo(SampleProcs, MaxProcs)] :
          /\ Len(procs_by_term[1]) + Len(procs_by_term[2]) <= MaxProcs
          /\ tasks = BuildTasks(procs_by_term, 1, 1)
    /\ futures = [t \in DOMAIN tasks |-> [state |-> "pending", result |-> NoResult]]
    /\ collected = {}
    /\ completed = 0
    /\ buffer_rows = <<>>
    /\ batch_counter = 1
    /\ segments = <<>>
    /\ appended = <<>>
    /\ m_pc = "loop"

RunIdle ==
    /\ tasks = <<>>
    /\ futures = <<>>
    /\ collected = {}
    /\ completed = 0
    /\ buffer_rows = <<>>
    /\ batch_counter = 1
    /\ segments = <<>>
    /\ appended = <<>>
    /\ m_pc = "idle"

\* buffer_rows is a local of main (652) that is not passed to
\* worker_process (658): a pool thread leaves it as it is
WorkerAppends(buf, rows) == buf \o rows
WorkerLeaves(buf, rows) == buf

\* A pool thread runs worker_process for task t to its end (line 658).
RunWorker(t) ==
    /\ futures[t].state = "pending"
    /\ RunFrame
    /\ futures' = [futures EXCEPT ![t] =
                      [state |-> "done",
                       result |-> worker_process(tasks[t].proc, tasks[t].term,
                                                 tasks[t].idx)]]
    /\ buffer_rows' = WorkerLeaves(buffer_rows,
                         worker_process(tasks[t].proc, tasks[t].term,
                                        tasks[t].idx).rows)
    /\ UNCHANGED <<m_pc, tasks, collected, completed,
                   batch_counter, segments, appended>>

\* save_batch_to_disk(rows, batch_idx) (159-169): nothing for no rows,
\* else one new file named after batch_idx
save_batch_to_disk(segs, rows, batch_idx) ==
    IF rows = <<>> THEN segs
    ELSE Append(segs, [batch_idx |-> batch_idx, rows |-> rows])

\* line 669: buffer_rows.extend(res)
PrependRows(buf, rows) == rows \o buf
ExtendBuffer(buf, rows) == buf \o rows

\* line 677
BufferKept(rows) == rows
BufferAfterFlush(rows) == <<>>

\* One iteration of the as_completed loop (663-679) for the finished
\* future of task t: its rows are taken over, then the periodic flush
\* runs if the save interval has elapsed (due).
Collect(t) ==
    /\ m_pc = "loop"
    /\ RunFrame
    /\ futures[t].state = "done"
    /\ t \notin collected
    /\ collected' = collected \cup {t}
    /\ completed' = completed + 1
    /\ LET res == futures[t].result
           buf == IF ~res.raised /\ res.rows # <<>>
                     THEN ExtendBuffer(buffer_rows, res.rows) ELSE buffer_rows
       IN  /\ appended' = IF ~res.raised THEN appended \o res.rows ELSE appended
           /\ \E due \in BOOLEAN :
                IF due
                   THEN /\ segments' = save_batch_to_disk(segments, buf,
                                                          ToString(batch_counter))
                        /\ buffer_rows' = BufferAfterFlush(buf)
                        /\ batch_counter' = batch_counter + 1
                   ELSE /\ buffer_rows' = buf
                        /\ UNCHANGED <<segments, batch_counter>>
    /\ UNCHANGED <<m_pc, tasks, futures>>

\* Every future has been yielded: the with block ends and line 681 runs.
FinalFlush ==
    /\ m_pc = "loop"
    /\ RunFrame
    /\ collected = DOMAIN tasks
    /\ segments' = save_batch_to_disk(segments, buffer_rows, "FINAL")
    /\ m_pc' = "done"
    /\ UNCHANGED <<tasks, futures, collected, completed, buffer_rows,
                   batch_counter, appended>>

\* KeyboardInterrupt reaches the main thread inside the loop: it is no
\* Exception, nothing catches it, main is left without reaching line 681.
Interrupt ==
    /\ m_pc = "loop"
    /\ RunFrame
    /\ m_pc' = "aborted"
    /\ UNCHANGED <<tasks, futures, collected, completed, buffer_rows,
                   batch_counter, segments, appended>>

MainNext ==
    \/ \E t \in DOMAIN tasks : RunWorker(t)
    \/ \E t \in DOMAIN tasks : Collect(t)
    \/ FinalFlush
    \/ Interrupt

(***************************************************************************)
(* main, the loop body line by line                       main.py 663-679  *)
(***************************************************************************)
\* Most tasks of the run taken line by line.
MaxTasks == 3

\* a process whose worker raises and one whose worker returns four rows
StepProcs == {P_NoTitle, P_PrintErrors}

StepsInit ==
    /\ \E procs \in SeqsUpTo(StepProcs, MaxTasks) :
          tasks = BuildTasks(<<procs, <<>> >>, 1, 1)
    /\ futures = [t \in DOMAIN tasks |-> [state |-> "pending", result |-> NoResult]]
    /\ collected = {}
    /\ completed = 0
    /\ buffer_rows = <<>>
    /\ batch_counter = 1
    /\ segments = <<>>
    /\ appended = <<>>
    /\ m_pc = "loop"

\* lines 663-673: as_completed yields the finished future of task t, its
\* rows are appended to the buffer (or its exception is printed)
TakeResult(t) ==
    /\ m_pc = "loop"
    /\ RunFrame
    /\ futures[t].state = "done"
    /\ t \notin collected
    /\ collected' = collected \cup {t}
    /\ completed' = completed + 1
    /\ LET res == futures[t].result
       IN  /\ buffer_rows' = IF ~res.raised /\ res.rows # <<>>
                                THEN ExtendBuffer(buffer_rows, res.rows)
                                ELSE buffer_rows
           /\ appended' = IF ~res.raised THEN appended \o res.rows ELSE appended
    /\ m_pc' = "check"
    /\ UNCHANGED <<tasks, futures, batch_counter, segments>>

\* line 675: the save interval has not elapsed
NotDue ==
    /\ m_pc = "check"
    /\ RunFrame
    /\ m_pc' = "loop"
    /\ UNCHANGED <<tasks, futures, collected, completed, buffer_rows,
                   batch_counter, segments, appended>>

\* lines 675-676: the interval has elapsed, the buffer is written
SaveBatch ==
    /\ m_pc = "check"
    /\ RunFrame
    /\ segments' = save_batch_to_disk(segments, buffer_rows,
                                      ToString(batch_counter))
    /\ m_pc' = "saved"
    /\ UNCHANGED <<tasks, futures, collected, completed, buffer_rows,
                   batch_counter, appended>>

\* lines 677-679: the buffer is replaced by [] and the counter advances
ClearBuffer ==
    /\ m_pc = "saved"
    /\ RunFrame
    /\ buffer_rows' = BufferAfterFlush(buffer_rows)
    /\ batch_counter' = batch_counter + 1
    /\ m_pc' = "loop"
    /\ UNCHANGED <<tasks, futures, collected, completed, segments, appended>>

StepsNext ==
    \/ \E t \in DOMAIN tasks : RunWorker(t)
    \/ \E t \in DOMAIN tasks : TakeResult(t)
    \/ NotDue
    \/ SaveBatch
    \/ ClearBuffer
    \/ FinalFlush
    \/ Interrupt

(***************************************************************************)
(* SejmProcessDownloader                 sejm_process_downloader.py 57-385 *)
(*                                                                         *)
(* URLs, hrefs, file names and paths are sequences of tokens: "/", ".",    *)
(* ":" and "_" are tokens of their own, so that basename, the extension    *)
(* test and the file name sanitizer work on them as the code does.         *)
(***************************************************************************)
MaxDocs == 3

PROCESS_NUMBER == 471

OUTPUT_DIR == "druk_471_dokumentacja"

SEJM_WEB_URL == "https://www.sejm.gov.pl"

PrintNums == {PROCESS_NUMBER, 472}

\* local_path = None (line 327, 367; the return of line 271)
NoPath == <<>>

\* file names the API lists as attachments of a print
ApiNames ==
    { <<"u", ".", "pdf">>,
      <<"u", ":", "1", ".", "pdf">>,
      <<"u", "_", "1", ".", "pdf">> }

\* hrefs of the process page: two documents of the same name in two
\* folders, a document whose path ends without a file name, and an API
\* link without an extension
Hrefs ==
    { <<"/", "a", "/", "u", ".", "pdf">>,
      <<"/", "b", "/", "u", ".", "pdf">>,
      <<"/", "c", ".", "pdf", "/", "view">>,
      <<API_URL, "/", "term10", "/", "prints", "/", "472">> }

\* link['href'] and link.get_text(): the text is kept as whether it holds
\* the word druk and the first number in it (0: no digits)
Link(h, d, n) == [href |-> h, text |-> [druk |-> d, num |-> n]]

Links ==
    { Link(h, FALSE, 0) : h \in Hrefs } \cup
    { Link(<<"/", "x">>, TRUE, n) : n \in PrintNums }

Pages == SeqsUpTo(Links, MaxDocs)

\* any(ext in href.lower() for ext in [...]) (lines 134, 164)
HasDocExt(href) ==
    \E i \in 1..(Len(href) - 1) :
        /\ href[i] = "."
        /\ href[i + 1] \in {"pdf", "doc", "docx", "xls", "xlsx", "zip", "rtf"}

\* 'api.sejm.gov.pl' in href (line 142)
IsApiHref(href) == \E i \in 1..Len(href) : href[i] = API_URL

\* '/druk' in href.lower() or 'druk' in link_text.lower() (line 149)
IsDrukLink(link) ==
    \/ \E i \in 1..(Len(link.href) - 1) :
           link.href[i] = "/" /\ link.href[i + 1] = "druk"
    \/ link.text.druk

\* urljoin(page_url, href) (lines 135, 165)
urljoin(href) ==
    IF Len(href) > 0 /\ href[1] = API_URL THEN href
    ELSE <<SEJM_WEB_URL>> \o href

\* urlparse(url).path
PathOf(url) ==
    IF Len(url) > 0 /\ url[1] \in {API_URL, SEJM_WEB_URL} THEN Tail(url)
    ELSE url

\* os.path.basename
basename(path) ==
    LET slashes == { i \in 1..Len(path) : path[i] = "/" }
        last == IF slashes = {} THEN 0
                ELSE CHOOSE i \in slashes : \A j \in slashes : j <= i
    IN  SubSeq(path, last + 1, Len(path))

\* the format :04d
Pad4(n) ==
    IF n < 10 THEN "000" \o ToString(n)
    ELSE IF n < 100 THEN "00" \o ToString(n)
    ELSE IF n < 1000 THEN "0" \o ToString(n)
    ELSE ToString(n)

\* _extract_filename (lines 182-191): the name and the class counter after
extract_filename(url, counter) ==
    LET filename == basename(PathOf(url))
    IN  IF filename = <<>> \/ ~(\E i \in 1..Len(filename) : filename[i] = ".")
        THEN [filename |-> <<"dokument_" \o Pad4(counter + 1), ".", "pdf">>,
              counter |-> counter + 1]
        ELSE [filename |-> filename, counter |-> counter]

\* one entry of doc_links (lines 136-140, 143-147, 167-171)
DocLink(url, link, name) ==
    [url |-> url, text |-> link.text, filename |-> name]

\* the loop of lines 129-155 from link i on;
\* st = [doc_links, all_prints, counter]
RECURSIVE FirstPass(_, _, _)
FirstPass(page, i, st) ==
    IF i > Len(page) THEN st
    ELSE LET link == page[i]
             ex == extract_filename(link.href, st.counter)
         IN  FirstPass(page, i + 1,
               IF HasDocExt(link.href)
               THEN [st EXCEPT
                       !.doc_links =
                           Append(@, DocLink(urljoin(link.href), link,
                                             ex.filename)),
                       !.counter = ex.counter]
               ELSE IF IsApiHref(link.href)
               THEN [st EXCEPT
                       !.doc_links =
                           Append(@, DocLink(link.href, link, ex.filename)),
                       !.counter = ex.counter]
               ELSE IF IsDrukLink(link) /\ link.text.num # 0
                       /\ ~(\E k \in 1..Len(st.all_prints) :
                               st.all_prints[k] = link.text.num)
               THEN [st EXCEPT !.all_prints = Append(@, link.text.num)]
               ELSE st)

\* the loop of lines 158-171 from link i on. Every link of a table is also
\* a link of the page, so the pass is taken with every link in a table.
RECURSIVE TablePass(_, _, _)
TablePass(page, i, st) ==
    IF i > Len(page) THEN st
    ELSE LET link == page[i]
             ex == extract_filename(link.href, st.counter)
             full_url == urljoin(link.href)
         IN  TablePass(page, i + 1,
               IF /\ HasDocExt(link.href)
                  /\ ~(\E k \in 1..Len(st.doc_links) :
                          st.doc_links[k].url = full_url)
               THEN [st EXCEPT
                       !.doc_links =
                           Append(@, DocLink(full_url, link, ex.filename)),
                       !.counter = ex.counter]
               ELSE st)

\* scrape_process_page (lines 103-180) on a page that was fetched
scrape_process_page(page, prints, counter) ==
    LET st == TablePass(page, 1,
                  FirstPass(page, 1, [doc_links |-> <<>>,
                                      all_prints |-> prints,
                                      counter |-> counter]))
    IN  [st EXCEPT
           !.all_prints =
               IF \E k \in 1..Len(@) : @[k] = PROCESS_NUMBER THEN @
               ELSE <<PROCESS_NUMBER>> \o @]

\* re.sub(r'[<>:"/\\\\|?*]', '_', filename) (line 264)
safe_filename(filename) ==
    [i \in 1..Len(filename) |->
        IF filename[i] \in {"<", ">", ":", "\"", "/", "\\", "|", "?", "*"}
        THEN "_" ELSE filename[i]]

\* os.path.join(target_dir, safe_filename) (lines 255-265)
filepath(filename, subfolder) ==
    (IF subfolder # "" THEN <<OUTPUT_DIR, "/", subfolder, "/">>
     ELSE <<OUTPUT_DIR, "/">>) \o safe_filename(filename)

\* the body the server sends for a URL: documents at different URLs differ
ContentOf(url) == url

\* open(filepath, 'wb') ... f.write(resp.content) (lines 267-268)
WriteFile(d, path, content) ==
    { f \in d : f.path # path } \cup {[path |-> path, content |-> content]}

\* download_url of line 326, the url of line 275
ApiAttachmentUrl(print_num, att) ==
    <<API_URL, "/", "term10", "/", "prints", "/", ToString(print_num), "/">>
        \o att

\* the att_node of lines 322-328 and of lines 361-368
AttNode(type, filename, url, local_path) ==
    [type |-> type, filename |-> filename, download_url |-> url,
     local_path |-> local_path]

DownloadInit ==
    /\ dl_pc = "start"
    /\ all_prints = <<>>
    /\ scraped_documents = <<>>
    /\ filename_counter = 0
    /\ dl_idx = 1
    /\ dl_att = 1
    /\ dl_cur = <<>>
    /\ dl_attachments = <<>>
    /\ disk = {}

DownloadIdle ==
    /\ dl_pc = "idle"
    /\ all_prints = <<>>
    /\ scraped_documents = <<>>
    /\ filename_counter = 0
    /\ dl_idx = 1
    /\ dl_att = 1
    /\ dl_cur = <<>>
    /\ dl_attachments = <<>>
    /\ disk = {}

\* fetch_process_info, method 1 (lines 199-220): the API has the print
FetchedFromApi ==
    /\ dl_pc = "start"
    /\ DownloadFrame
    /\ \E additional \in {<<>>, <<472>>} :
           all_prints' = <<PROCESS_NUMBER>> \o additional
    /\ dl_pc' = "print"
    /\ UNCHANGED <<scraped_documents, filename_counter, dl_idx, dl_att,
                   dl_cur, dl_attachments, disk>>

\* fetch_process_info, method 2 (lines 223-226): the page was fetched
ScrapedPage ==
    /\ dl_pc = "start"
    /\ DownloadFrame
    /\ \E page \in Pages :
           LET st == scrape_process_page(page, all_prints, filename_counter)
           IN  /\ all_prints' = st.all_prints
               /\ scraped_documents' = st.doc_links
               /\ filename_counter' = st.counter
    /\ dl_pc' = "print"
    /\ UNCHANGED <<dl_idx, dl_att, dl_cur, dl_attachments, disk>>

\* fetch_process_info, method 3 (lines 229-242): found in the process list
FoundInProcessList ==
    /\ dl_pc = "start"
    /\ DownloadFrame
    /\ all_prints' \in {<<PROCESS_NUMBER>>, <<472, PROCESS_NUMBER>>}
    /\ dl_pc' = "print"
    /\ UNCHANGED <<scraped_documents, filename_counter, dl_idx, dl_att,
                   dl_cur, dl_attachments, disk>>

\* fetch_process_info returns False (lines 246-247), run returns False
NotFound ==
    /\ dl_pc = "start"
    /\ DownloadFrame
    /\ dl_pc' = "failed"
    /\ UNCHANGED <<all_prints, scraped_documents, filename_counter, dl_idx,
                   dl_att, dl_cur, dl_attachments, disk>>

\* how many attachments the API may still list: the run handles at most
\* MaxDocs documents in all
Budget ==
    LET left == MaxDocs - Len(scraped_documents) - Len(dl_attachments)
    IN  IF left < 0 THEN 0 ELSE left

\* print_data['attachments'] (line 318): the API lists a file of a print
\* once
AttachmentLists(n) ==
    { l \in SeqsUpTo(ApiNames, n) :
        \A i, j \in 1..Len(l) : l[i] = l[j] => i = j }

\* lines 304-319: the API answers for the print with its attachment list
PrintFetched ==
    /\ dl_pc = "print"
    /\ dl_idx <= Len(all_prints)
    /\ DownloadFrame
    /\ dl_cur' \in AttachmentLists(Budget)
    /\ dl_att' = 1
    /\ dl_pc' = "attachment"
    /\ UNCHANGED <<all_prints, scraped_documents, filename_counter, dl_idx,
                   dl_attachments, disk>>

\* lines 343-344: no data for the print, next print
PrintMissing ==
    /\ dl_pc = "print"
    /\ dl_idx <= Len(all_prints)
    /\ DownloadFrame
    /\ dl_idx' = dl_idx + 1
    /\ UNCHANGED <<dl_pc, all_prints, scraped_documents, filename_counter,
                   dl_att, dl_cur, dl_attachments, disk>>

\* lines 321-340 with download_api_attachment returning a path
ApiAttachmentSaved ==
    /\ dl_pc = "attachment"
    /\ dl_att <= Len(dl_cur)
    /\ DownloadFrame
    /\ LET att == dl_cur[dl_att]
           url == ApiAttachmentUrl(all_prints[dl_idx], att)
           path == filepath(att, "druk_" \o ToString(all_prints[dl_idx]))
       IN  /\ disk' = WriteFile(disk, path, ContentOf(url))
           /\ dl_attachments' =
                  Append(dl_attachments, AttNode("ZALACZNIK", att, url, path))
    /\ dl_att' = dl_att + 1
    /\ UNCHANGED <<dl_pc, all_prints, scraped_documents, filename_counter,
                   dl_idx, dl_cur>>

\* lines 321-340 with download_api_attachment returning None
ApiAttachmentFailed ==
    /\ dl_pc = "attachment"
    /\ dl_att <= Len(dl_cur)
    /\ DownloadFrame
    /\ LET att == dl_cur[dl_att]
           url == ApiAttachmentUrl(all_prints[dl_idx], att)
       IN  dl_attachments' =
               Append(dl_attachments, AttNode("ZALACZNIK", att, url, NoPath))
    /\ dl_att' = dl_att + 1
    /\ UNCHANGED <<dl_pc, all_prints, scraped_documents, filename_counter,
                   dl_idx, dl_cur, disk>>

\* line 342: the attachments of the print are done, next print
PrintDone ==
    /\ dl_pc = "attachment"
    /\ dl_att > Len(dl_cur)
    /\ DownloadFrame
    /\ dl_idx' = dl_idx + 1
    /\ dl_pc' = "print"
    /\ UNCHANGED <<all_prints, scraped_documents, filename_counter, dl_att,
                   dl_cur, dl_attachments, disk>>

\* the loop of line 301 ends: on to the scraped documents (lines 347-348)
PrintsDone ==
    /\ dl_pc = "print"
    /\ dl_idx > Len(all_prints)
    /\ DownloadFrame
    /\ dl_idx' = 1
    /\ dl_pc' = "scraped"
    /\ UNCHANGED <<all_prints, scraped_documents, filename_counter, dl_att,
                   dl_cur, dl_attachments, disk>>

\* lines 358-378 with download_attachment returning a path
ScrapedSaved ==
    /\ dl_pc = "scraped"
    /\ dl_idx <= Len(scraped_documents)
    /\ DownloadFrame
    /\ LET doc == scraped_documents[dl_idx]
           path == filepath(doc.filename, "strona_www")
       IN  /\ disk' = WriteFile(disk, path, ContentOf(doc.url))
           /\ dl_attachments' =
                  Append(dl_attachments,
                         AttNode("ZALACZNIK_WWW", doc.filename, doc.url,
                                 path))
    /\ dl_idx' = dl_idx + 1
    /\ UNCHANGED <<dl_pc, all_prints, scraped_documents, filename_counter,
                   dl_att, dl_cur>>

\* lines 358-378 with download_attachment returning None
ScrapedFailed ==
    /\ dl_pc = "scraped"
    /\ dl_idx <= Len(scraped_documents)
    /\ DownloadFrame
    /\ LET doc == scraped_documents[dl_idx]
       IN  dl_attachments' =
               Append(dl_attachments,
                      AttNode("ZALACZNIK_WWW", doc.filename, doc.url,
                              NoPath))
    /\ dl_idx' = dl_idx + 1
    /\ UNCHANGED <<dl_pc, all_prints, scraped_documents, filename_counter,
                   dl_att, dl_cur, disk>>

\* lines 380-385: build_tree returns
TreeBuilt ==
    /\ dl_pc = "scraped"
    /\ dl_idx > Len(scraped_documents)
    /\ DownloadFrame
    /\ dl_pc' = "done"
    /\ UNCHANGED <<all_prints, scraped_documents, filename_counter, dl_idx,
                   dl_att, dl_cur, dl_attachments, disk>>

DownloadNext ==
    \/ FetchedFromApi
    \/ ScrapedPage
    \/ FoundInProcessList
    \/ NotFound
    \/ PrintFetched
    \/ PrintMissing
    \/ ApiAttachmentSaved
    \/ ApiAttachmentFailed
    \/ PrintDone
    \/ PrintsDone
    \/ ScrapedSaved
    \/ ScrapedFailed
    \/ TreeBuilt

(***************************************************************************)
(* Specifications                                                          *)
(***************************************************************************)
InitFetch ==
    FetchInit /\ ScanIdle /\ RunIdle /\ WorkerIdle /\ FileIdle /\ DownloadIdle

SpecFetch == InitFetch /\ [][FetchNext]_vars

\* Every iteration ends: requests.get is called with a timeout and the
\* waits are finite sleeps, so the call keeps taking steps until it returns.
SpecFetchFair == InitFetch /\ [][FetchNext]_vars /\ WF_vars(FetchNext)

InitScan ==
    ScanInit /\ FetchIdle /\ RunIdle /\ WorkerIdle /\ FileIdle /\ DownloadIdle

SpecScan == InitScan /\ [][ScanNext]_vars

Init ==
    MainInit /\ FetchIdle /\ ScanIdle /\ WorkerIdle /\ FileIdle /\ DownloadIdle

Next == MainNext

Spec == Init /\ [][Next]_vars

InitWorker ==
    WorkerInit /\ FetchIdle /\ ScanIdle /\ RunIdle /\ FileIdle /\ DownloadIdle

SpecWorker == InitWorker /\ [][WorkerNext]_vars

InitSteps ==
    StepsInit /\ FetchIdle /\ ScanIdle /\ WorkerIdle /\ FileIdle /\ DownloadIdle

SpecSteps == InitSteps /\ [][StepsNext]_vars

InitFile ==
    FileInit /\ FetchIdle /\ ScanIdle /\ RunIdle /\ WorkerIdle /\ DownloadIdle

SpecFile == InitFile /\ [][FileNext]_vars

InitDownload ==
    DownloadInit /\ FetchIdle /\ ScanIdle /\ RunIdle /\ WorkerIdle /\ FileIdle

SpecDownload == InitDownload /\ [][DownloadNext]_vars

(***************************************************************************)
(* Properties of robust_request, checked under SpecFetch                   *)
(***************************************************************************)
AllStatus(h, s) == \A i \in DOMAIN h : h[i] = Resp(s)

IsOtherStatus(r) == r.kind = "resp" /\ r.status \notin {200, 429}

\* C2: when every response so far has status 500, robust_request has
\* returned exactly when it has issued retries GETs (never earlier, never
\* later), and what it returns then is the 500 response (the http-error).
C2_RetryBoundOn500 ==
    (rq_retries >= 1 /\ AllStatus(rq_hist, 500)) =>
        /\ rq_gets <= rq_retries
        /\ (rq_pc = "done") <=> (rq_gets = rq_retries)
        /\ (rq_pc = "done") => (rq_result = Resp(500))

C2_Witness ==
    /\ rq_pc = "done"
    /\ rq_retries = 3
    /\ rq_hist = <<Resp(500), Resp(500), Resp(500)>>
    /\ rq_result = Resp(500)

\* C3: after 429 on each of the first retries-1 attempts the call has not
\* given up, and a 200 on attempt number retries is returned as the result.
C3_RateLimitedThenOk ==
    rq_retries >= 1 =>
        /\ (Len(rq_hist) = rq_retries - 1 /\ AllStatus(rq_hist, 429))
              => rq_pc = "loop"
        /\ ( /\ Len(rq_hist) = rq_retries
             /\ AllStatus(SubSeq(rq_hist, 1, rq_retries - 1), 429)
             /\ rq_hist[rq_retries] = Resp(200) )
              => (rq_pc = "done" /\ rq_result = Resp(200) /\ rq_gets = rq_retries)

C3_Witness ==
    /\ rq_pc = "done"
    /\ rq_retries = 3
    /\ rq_hist = <<Resp(429), Resp(429), Resp(200)>>
    /\ rq_result = Resp(200)

\* C4 as claimed: a response whose status is neither 200 nor 429 is never
\* followed by another GET; it is returned at once as the result.
C4_NotRetried ==
    \A i \in DOMAIN rq_hist :
        IsOtherStatus(rq_hist[i]) =>
            (i = Len(rq_hist) /\ rq_pc = "done" /\ rq_result = rq_hist[i])

\* C4 as amended: a response whose status is neither 200 nor 429 is
\* retried while attempts remain; it is returned as the result exactly
\* when it answers attempt number retries (the last one).
C4_RetriedUntilLastAttempt ==
    \A i \in DOMAIN rq_hist :
        IsOtherStatus(rq_hist[i]) =>
            IF i = rq_retries
               THEN rq_pc = "done" /\ rq_result = rq_hist[i] /\ rq_gets = i
               ELSE i < rq_retries /\ (i = Len(rq_hist) => rq_pc = "loop")

C4_Witness ==
    /\ rq_pc = "done"
    /\ rq_retries = 3
    /\ rq_hist = <<Resp(404), Resp(404), Resp(404)>>
    /\ rq_result = Resp(404)

AllRaised(h) == \A i \in DOMAIN h : h[i].kind = "raise"

\* What a result of robust_request tells its caller about the failure: a
\* response object carries its status code, None carries nothing.
FailureShown(r) ==
    IF r.kind = "resp" THEN <<"http-error", r.status>> ELSE <<"nothing">>

\* C14: when robust_request has given up, its result tells the caller
\* which failure it was: rate-limited-exhausted after 429 on every
\* attempt, network-exhausted after an exception on every attempt,
\* http-error with the status after another status on the last attempt.
C14_TypedFailure ==
    (rq_pc = "done" /\ rq_retries >= 1) =>
        /\ AllStatus(rq_hist, 429)
              => FailureShown(rq_result) = <<"rate-limited-exhausted">>
        /\ AllRaised(rq_hist)
              => FailureShown(rq_result) = <<"network-exhausted">>
        /\ IsOtherStatus(rq_hist[Len(rq_hist)])
              => FailureShown(rq_result)
                    = <<"http-error", rq_hist[Len(rq_hist)].status>>

LastFailed(h) ==
    /\ h # <<>>
    /\ \/ h[Len(h)] = Resp(429)
       \/ h[Len(h)].kind = "raise"

\* C25: whatever the server answers, robust_request returns; it never
\* issues more than retries GETs, a 429 using up an attempt like any other
\* answer; and what it returns is None exactly when its last attempt was
\* answered by 429 or raised (or when retries is 0 and nothing was tried).
C25_TerminatesWithinBound ==
    /\ <>(rq_pc = "done")
    /\ [](/\ rq_gets <= rq_retries
          /\ rq_gets = Len(rq_hist)
          /\ rq_pc = "done" =>
                /\ (rq_retries >= 1) => rq_hist # <<>>
                /\ (rq_result = None) <=> (rq_retries = 0 \/ LastFailed(rq_hist)))

\* given up after 429 on each of the three attempts
C25_Witness ==
    /\ rq_pc = "done"
    /\ rq_retries = 3
    /\ rq_hist = <<Resp(429), Resp(429), Resp(429)>>
    /\ rq_gets = 3
    /\ rq_result = None

(***************************************************************************)
(* Properties of ForensicScanner, checked under SpecScan                   *)
(***************************************************************************)
CountKind(as, kinds) == Cardinality({ i \in DOMAIN as : as[i].kind \in kinds })

\* The increments the evidence accounts for: 3 for every matched vector,
\* 5 for every injection or deep-rider alert, 10 for the locked alert.
SumOfIncrements ==
    3 * Len(vectors)
      + 5 * CountKind(alerts, {"INJECTION", "DEEP_RIDER"})
      + 10 * CountKind(alerts, {"LOCKED"})

\* C8: the value run() returns is an integer in 0..10 and equals the sum
\* of the applied increments clamped to 10, whatever the document.
C8_RiskScoreBound ==
    sc_pc = "done" =>
        /\ sc_result \in 0..10
        /\ sc_result = Min(SumOfIncrements, 10)

C8_Witness ==
    /\ sc_pc = "done"
    /\ SumOfIncrements > 10
    /\ sc_result = 10

\* C9 as claimed: the category alert is emitted if and only if at least
\* two distinct categories each have a matched term.
C9_AlertIffTwoCategories ==
    sc_pc = "done" =>
        ((A_Military \in Range(alerts)) <=> (Cardinality(found_cats) >= 2))

\* C9 as amended: the category alert is emitted, once, if and only if the
\* MILITARY_DEFENSE category has a matched term, and nothing is added to
\* the risk for it.
C9_AlertIffCategoryFound ==
    sc_pc = "done" =>
        /\ (A_Military \in Range(alerts)) <=> (vectors # <<>>)
        /\ (vectors # <<>>) <=> (found_cats = {"MILITARY_DEFENSE"})
        /\ CountKind(alerts, {"MILITARY_DEFENSE_CONTENT"}) <= 1
        /\ risk = SumOfIncrements

C9_Witness ==
    /\ sc_pc = "done"
    /\ found_cats = {"MILITARY_DEFENSE"}
    /\ Len(vectors) = 1
    /\ A_Military \in Range(alerts)

\* the matched term, normalized like the channel, occurs in the channel
NormalizedVecInChannel(vec, channel) == IsSubstr(term_clean(vec), channel)

\* C10: for a PDF and every matched term, present (normalized) in the
\* logical text only means an injection alert naming it and no deep-rider
\* alert; present in the visual text only means the converse.
C10_DiffSymmetry ==
    (sc_pc = "done" /\ ext = "pdf") =>
        \A i \in DOMAIN vectors :
            LET v == vectors[i]
                in_logic == NormalizedVecInChannel(v, clean_logic)
                in_visual == NormalizedVecInChannel(v, clean_visual)
            IN  /\ (in_logic /\ ~in_visual) =>
                      ( /\ A_Injection(v) \in Range(alerts)
                        /\ A_DeepRider(v) \notin Range(alerts) )
                /\ (in_visual /\ ~in_logic) =>
                      ( /\ A_DeepRider(v) \in Range(alerts)
                        /\ A_Injection(v) \notin Range(alerts) )

\* the normalization of the search surface (369-374): transliterated,
\* lowercased, everything but a-z, 0-9 and whitespace removed
NormalizeLikeSurface(t) == strip_nonalnum(lower(unidecode(t)))

\* C11: a trigger term that occurs in the document once both are put
\* through the normalization of the search surface (whatever the case,
\* diacritics or punctuation of either) is among the matched terms.
C11_SameNormalization ==
    sc_pc = "done" =>
        \A t \in AllTerms :
            IsSubstr(NormalizeLikeSurface(t),
                     NormalizeLikeSurface(visual_text \o <<" ">> \o logic_text))
                => t \in Range(vectors)

\* The scenario's process: one print with one PDF attachment.  The rows
\* worker_process returns for it; the last one is the attachment's row,
\* whose risk is what run() returned (line 469) and whose alert text is
\* the scanner's alerts joined (line 471).
E2E_Rows ==
    worker_process(Proc("7", TRUE, <<PrintOf("71", "ok", <<PlainPdf>>)>>),
                   10, 1).rows

\* term occurs in the channel, case and diacritics aside
TermInChannel(t, channel) == IsSubstr(term_clean(t), channel)

\* C12: for the one-print, one-PDF process the rows are process, print,
\* attachment in this order; and whenever the PDF's logical text contains
\* a trigger term its visual text does not contain, the attachment's risk
\* is at least 7 and an injection alert names that term.
C12_EndToEndInjection ==
    (sc_pc = "done" /\ ext = "pdf" /\ file_fault = "none") =>
        /\ Len(E2E_Rows) = 3
        /\ E2E_Rows[1].DRZEWO = "PROCESS"
        /\ E2E_Rows[2].DRZEWO = "PRINT"
        /\ E2E_Rows[3].DRZEWO = "FILE"
        /\ \A t \in AllTerms :
              (TermInChannel(t, clean_logic) /\ ~TermInChannel(t, clean_visual))
                 => /\ sc_result >= 7
                    /\ \E i \in DOMAIN alerts :
                          /\ alerts[i].kind = "INJECTION"
                          /\ term_clean(alerts[i].vec) = term_clean(t)

\* the alerts that note a failed stage
ErrorNotes == {"PDF_ERROR", "EXCEL_ERROR"}

\* C21: whichever stage fails, run() returns, the failure is noted in an
\* alert, and the text of the channel whose stage did not fail is still
\* there for scoring: the logical text of a PDF whose rasterization or OCR
\* fails, the visual text of a PDF whose reader or text extraction fails.
C21_ExtractionBoundary ==
    (sc_pc = "done" /\ file_fault \notin {"none", "locked", "undecrypted"}) =>
        /\ sc_result \in 0..10
        /\ CountKind(alerts, ErrorNotes) >= 1
        /\ (ext = "pdf" /\ file_fault \in {"raster", "ocr"})
              => logic_text = file_doc.logic \o <<" ">>
        /\ (ext = "pdf" /\ file_fault \in {"reader", "extract"})
              => visual_text = ocr_cpu(file_doc.visual)

\* C22: for an encrypted PDF that the empty password does not decrypt,
\* whether decrypt('') raises or reports it by its return value, the
\* locked alert is emitted, the returned score is 10, and nothing is
\* extracted: both texts stay empty and no rasterization error is noted.
C22_LockedPdf ==
    (sc_pc = "done" /\ ext = "pdf" /\ file_fault \in {"locked", "undecrypted"}) =>
        /\ A_Locked \in Range(alerts)
        /\ sc_result = 10
        /\ logic_text = <<>>
        /\ visual_text = <<>>
        /\ A_PdfError \notin Range(alerts)

(***************************************************************************)
(* Properties of the run, checked under Spec                               *)
(***************************************************************************)
RECURSIVE Flatten(_)
Flatten(segs) ==
    IF segs = <<>> THEN <<>> ELSE Head(segs).rows \o Flatten(Tail(segs))

Occurrences(r, rows) == Cardinality({ i \in DOMAIN rows : rows[i] = r })

\* C1: once main has finished, every row that was put into buffer_rows
\* occurs in the written segments (periodic and FINAL together) exactly as
\* often as it was appended, once, and nothing else is in them.
C1_WriterExactlyOnce ==
    m_pc = "done" =>
        LET written == Flatten(segments)
        IN  /\ Len(written) = Len(appended)
            /\ \A r \in Range(appended) \cup Range(written) :
                  /\ Occurrences(r, written) = Occurrences(r, appended)
                  /\ Occurrences(r, written) = 1

C1_Witness ==
    /\ m_pc = "done"
    /\ Len(segments) = 2
    /\ segments[1].batch_idx = "1"
    /\ segments[2].batch_idx = "FINAL"
    /\ Len(tasks) = 2

\* An exception is raised somewhere while worker_process handles proc.
ExceptionIn(proc) ==
    \/ ~proc.has_title
    \/ \E i \in DOMAIN proc.prints :
          \/ proc.prints[i].meta = "raise"
          \/ /\ proc.prints[i].meta = "ok"
             /\ \E j \in DOMAIN proc.prints[i].attachments :
                   /\ proc.prints[i].attachments[j].fetch = "ok"
                   /\ proc.prints[i].attachments[j].bad_name

\* C5: whatever exception is raised while a process is handled, the
\* worker still returns the process's header row, with the error as its
\* status, and the exception does not leave worker_process.
C5_ExceptionCaughtAtProcessBoundary ==
    \A t \in DOMAIN futures :
        (futures[t].state = "done" /\ ExceptionIn(tasks[t].proc)) =>
            /\ ~futures[t].result.raised
            /\ futures[t].result.rows # <<>>
            /\ futures[t].result.rows[1].TREE_ID = get_roman(tasks[t].idx)
            /\ futures[t].result.rows[1].STATUS_SKANU \in {"ERROR: json", "ERROR: split"}

\* C6: however main ends, normally or by an interrupt of the completion
\* loop, the rows still held in buffer_rows are in a FINAL segment.
C6_FinalFlushOnEveryPath ==
    (m_pc \in {"done", "aborted"} /\ buffer_rows # <<>>) =>
        \E i \in DOMAIN segments :
            /\ segments[i].batch_idx = "FINAL"
            /\ segments[i].rows = buffer_rows

\* every row some worker_process call of the run has returned, as
\* <<task, position>>
ProducedRows ==
    UNION { { <<t, k>> : k \in DOMAIN futures[t].result.rows } :
            t \in { u \in DOMAIN futures : futures[u].state = "done" } }

RowAt(tk) == futures[tk[1]].result.rows[tk[2]]

\* C7: no two rows produced in one run carry the same TREE_ID.
C7_TreeIdsUnique ==
    \A a, b \in ProducedRows :
        (a # b) => (RowAt(a).TREE_ID # RowAt(b).TREE_ID)

C7_Witness ==
    \E t, u \in DOMAIN futures :
        /\ t # u
        /\ futures[t].state = "done"
        /\ futures[u].state = "done"
        /\ tasks[t].proc = P_Wide
        /\ tasks[u].proc = P_Zip
        /\ Len(futures[t].result.rows) = MaxAttachments + 2
        /\ tasks[t].term # tasks[u].term

(***************************************************************************)
(* Properties of process_file_content, checked under SpecFile              *)
(***************************************************************************)
IsArchiveName(name) == ~name.dir /\ ExtOf(name) = "zip"

\* the archive opens, every entry reads, and every entry named as an
\* archive is such an archive, at every level
RECURSIVE NoCorruptEntry(_)
NoCorruptEntry(content) ==
    /\ content.kind = "zip"
    /\ \A i \in DOMAIN content.entries :
          LET e == content.entries[i]
          IN  e.name.dir
                \/ (e.readable /\ (IsArchiveName(e.name) => NoCorruptEntry(e.content)))

RECURSIVE LeafEntries(_)
RECURSIVE LeafEntriesFrom(_, _)

\* N: the entries that are neither directory markers nor archives, counted
\* through every level
LeafEntries(content) == LeafEntriesFrom(content.entries, 1)

LeafEntriesFrom(entries, i) ==
    IF i > Len(entries) THEN 0
    ELSE (IF entries[i].name.dir THEN 0
          ELSE IF IsArchiveName(entries[i].name) THEN LeafEntries(entries[i].content)
          ELSE 1)
         + LeafEntriesFrom(entries, i + 1)

\* nesting depth of an archive: 1 without nested archives
RECURSIVE Depth(_)
Depth(content) ==
    IF content.kind # "zip" THEN 0
    ELSE 1 + (IF \E i \in DOMAIN content.entries :
                     content.entries[i].content.kind = "zip"
                 THEN CHOOSE d \in 0..MaxNodes + 1 :
                        /\ \E i \in DOMAIN content.entries :
                              Depth(content.entries[i].content) = d
                        /\ \A i \in DOMAIN content.entries :
                              Depth(content.entries[i].content) <= d
                 ELSE 0)

LeafRows(rows) == Cardinality({ i \in DOMAIN rows : rows[i].DRZEWO = "FILE" })

\* C15: for an archive without a corrupt entry, whatever its nesting, the
\* returned rows hold exactly as many leaf (non-archive) rows as the
\* archive has non-directory, non-archive entries over all levels.
C15_LeafCountPreserved ==
    (pf_pc = "returned" /\ ExtOf(pf_filename) = "zip" /\ NoCorruptEntry(pf_content))
        => LeafRows(pf_rows) = LeafEntries(pf_content)

C15_Witness ==
    /\ pf_pc = "returned"
    /\ ExtOf(pf_filename) = "zip"
    /\ NoCorruptEntry(pf_content)
    /\ Depth(pf_content) = 2
    /\ LeafEntries(pf_content) = 2
    /\ LeafRows(pf_rows) = 2
    /\ Len(pf_rows) = 4

\* opening the bytes as a zip fails, or reading one of its entries does
OpenOrReadFails(content) ==
    \/ content.kind # "zip"
    \/ \E i \in DOMAIN content.entries :
          ~content.entries[i].name.dir /\ ~content.entries[i].readable

\* C16: when opening the archive or reading one of its entries fails,
\* wherever in the expansion, the call returns exactly one row, the
\* archive itself as a plain file row under its own TREE_ID, name and
\* link, and none of the rows of the entries read before the failure.
C16_CorruptArchiveOpaque ==
    (pf_pc = "returned" /\ ExtOf(pf_filename) = "zip" /\ OpenOrReadFails(pf_content))
        => /\ Len(pf_rows) = 1
           /\ pf_rows[1].TREE_ID = pf_file_id
           /\ pf_rows[1].DRZEWO = "FILE"
           /\ pf_rows[1].Nazwa_Pliku = NameStr(pf_filename)
           /\ pf_rows[1].Link = pf_url

\* the read fails on the last of three entries, after a file and a nested
\* archive were read
C16_Witness ==
    /\ pf_pc = "returned"
    /\ ExtOf(pf_filename) = "zip"
    /\ pf_content.kind = "zip"
    /\ Len(pf_content.entries) = 3
    /\ pf_content.entries[1].readable /\ ~pf_content.entries[1].name.dir
    /\ pf_content.entries[2].content.kind = "zip"
    /\ ~pf_content.entries[3].readable
    /\ Len(pf_rows) = 1
    /\ pf_rows[1].TREE_ID = pf_file_id

\* C17: for a file name whose extension is not zip, whatever the content,
\* the call returns exactly one row, and this row carries the given file
\* id, file name and URL unchanged.
C17_NonArchivePassThrough ==
    (pf_pc = "returned" /\ ExtOf(pf_filename) # "zip")
        => /\ Len(pf_rows) = 1
           /\ pf_rows[1].TREE_ID = pf_file_id
           /\ pf_rows[1].Nazwa_Pliku = NameStr(pf_filename)
           /\ pf_rows[1].Link = pf_url

\* a file that is named .pdf and holds a readable archive
C17_Witness ==
    /\ pf_pc = "returned"
    /\ pf_filename = FileName("doc", "pdf")
    /\ NoCorruptEntry(pf_content)
    /\ LeafEntries(pf_content) = 2
    /\ pf_rows = <<Row(pf_file_id, "OK", "FILE", "doc.pdf", pf_url)>>

(***************************************************************************)
(* Properties of worker_process, checked under SpecWorker                  *)
(***************************************************************************)
\* C13: worker_process called on a descriptor that has no title does not
\* fail; it returns rows, the first of which is that process's header row.
C13_MissingTitleTolerated ==
    (wk_pc # "call" /\ ~wk_proc.has_title) =>
        /\ wk_pc = "returned"
        /\ wk_rows # <<>>
        /\ wk_rows[1].TREE_ID = get_roman(wk_idx)
        /\ wk_rows[1].DRZEWO = "PROCESS"

\* the positions of the rows carrying the TREE_ID id
RowsWithId(rows, id) == { k \in DOMAIN rows : rows[k].TREE_ID = id }

PrintId(p_i) == get_roman(wk_idx) \o "." \o ToString(p_i)

\* C18: a print whose metadata fetch fails has exactly one row, its own,
\* with the status API ERROR, which no other print's row has; the row after
\* it is the next print's row (no attachment row in between), or it is the
\* last row when the print is the last one.
C18_PrintMetadataFailure ==
    wk_pc = "returned" =>
        \A p_i \in DOMAIN wk_proc.prints :
            LET at == RowsWithId(wk_rows, PrintId(p_i))
                failed == wk_proc.prints[p_i].meta = "fail"
            IN  /\ Cardinality(at) = 1
                /\ \A k \in at :
                      /\ wk_rows[k].DRZEWO = "PRINT"
                      /\ (wk_rows[k].STATUS_SKANU = "API ERROR") <=> failed
                      /\ failed =>
                            IF p_i = Len(wk_proc.prints)
                               THEN k = Len(wk_rows)
                               ELSE /\ k < Len(wk_rows)
                                    /\ wk_rows[k + 1].TREE_ID = PrintId(p_i + 1)
                                    /\ wk_rows[k + 1].DRZEWO = "PRINT"

\* a failed print followed by a print whose attachment is processed
C18_Witness ==
    /\ wk_pc = "returned"
    /\ Len(wk_proc.prints) = 2
    /\ wk_proc.prints[1].meta = "fail"
    /\ wk_proc.prints[2].meta = "ok"
    /\ Len(wk_proc.prints[2].attachments) = 1
    /\ Len(wk_rows) = 4
    /\ wk_rows[2].STATUS_SKANU = "API ERROR"
    /\ wk_rows[3].TREE_ID = PrintId(2)
    /\ wk_rows[4].DRZEWO = "FILE"

FileId(p_i, f_i) == PrintId(p_i) \o "." \o index_to_char(f_i)

\* handling the attachment raises: it downloads and is no file name
RaisesOn(att) == att.fetch = "ok" /\ att.bad_name

\* the attachment loop gets to attachment j (1-based): none before it raised
ReachedAtt(atts, j) == \A i \in 1..(j - 1) : ~RaisesOn(atts[i])

\* C19: an attachment whose download fails has exactly one row, under its
\* hierarchical id, with status DOWNLOAD ERROR and no scan result (it is
\* no FILE row); and every later attachment of the same print that the
\* loop gets to without an exception of its own has its rows, the next
\* one directly after the error row.
C19_DownloadFailure ==
    wk_pc = "returned" =>
        \A p_i \in DOMAIN wk_proc.prints :
            LET p == wk_proc.prints[p_i]
                atts == p.attachments
            IN  p.meta = "ok" =>
                  \A j \in DOMAIN atts :
                    (atts[j].fetch = "fail" /\ ReachedAtt(atts, j)) =>
                        LET at == RowsWithId(wk_rows, FileId(p_i, j - 1))
                        IN  /\ Cardinality(at) = 1
                            /\ \A k \in at :
                                  /\ wk_rows[k].STATUS_SKANU = "DOWNLOAD ERROR"
                                  /\ wk_rows[k].DRZEWO = "DOWNLOAD_ERROR"
                                  /\ wk_rows[k].Nazwa_Pliku = NameStr(atts[j].name)
                                  /\ (j < Len(atts) /\ ~RaisesOn(atts[j + 1]))
                                        => /\ k < Len(wk_rows)
                                           /\ wk_rows[k + 1].TREE_ID = FileId(p_i, j)
                            /\ \A m \in (j + 1)..Len(atts) :
                                  (ReachedAtt(atts, m) /\ ~RaisesOn(atts[m]))
                                     => RowsWithId(wk_rows, FileId(p_i, m - 1)) # {}

\* a failed download between two files that are scanned
C19_Witness ==
    /\ wk_pc = "returned"
    /\ Len(wk_proc.prints) = 1
    /\ wk_proc.prints[1].meta = "ok"
    /\ Len(wk_proc.prints[1].attachments) = 3
    /\ wk_proc.prints[1].attachments[2].fetch = "fail"
    /\ Len(wk_rows) = 5
    /\ wk_rows[3].DRZEWO = "FILE"
    /\ wk_rows[4].STATUS_SKANU = "DOWNLOAD ERROR"
    /\ wk_rows[4].TREE_ID = FileId(1, 1)
    /\ wk_rows[5].DRZEWO = "FILE"
    /\ wk_rows[5].TREE_ID = FileId(1, 2)

\* C20: a process whose print list is empty returns exactly one row, its
\* header row, and the status of that row is OK, not an error.
C20_NoPrintsOneRow ==
    (wk_pc = "returned" /\ wk_proc.prints = <<>>) =>
        /\ Len(wk_rows) = 1
        /\ wk_rows[1].TREE_ID = get_roman(wk_idx)
        /\ wk_rows[1].DRZEWO = "PROCESS"
        /\ wk_rows[1].STATUS_SKANU = "OK"

C20_Witness ==
    /\ wk_pc = "returned"
    /\ wk_proc.prints = <<>>
    /\ wk_idx = 4
    /\ wk_rows = <<Row("IV", "OK", "PROCESS", "",
                        "https://sejm.gov.pl/Sejm10.nsf/przebieg.xsp?id=8")>>

(***************************************************************************)
(* Row order of the run, checked under Spec                                *)
(***************************************************************************)
\* Discovery order, written down from the descriptor: the ids of a file
\* (an archive that expands is followed by its entries in entry order),
\* of a print's attachments in list order up to the first one that
\* raises, of the prints in list order, after the process's own id.
RECURSIVE IdsOfFile(_, _, _)
RECURSIVE IdsOfEntries(_, _, _)
IdsOfFile(content, name, id) ==
    IF IsArchiveName(name) /\ ~OpenOrReadFails(content)
       THEN <<id>> \o IdsOfEntries(content.entries, 1, id)
       ELSE <<id>>

IdsOfEntries(entries, i, id) ==
    IF i > Len(entries) THEN <<>>
    ELSE (IF entries[i].name.dir THEN <<>>
          ELSE IdsOfFile(entries[i].content, entries[i].name,
                         id \o "." \o ToString(i)))
         \o IdsOfEntries(entries, i + 1, id)

RECURSIVE IdsOfAttachments(_, _, _)
IdsOfAttachments(atts, j, print_id) ==
    IF j > Len(atts) \/ RaisesOn(atts[j]) THEN <<>>
    ELSE LET id == print_id \o "." \o index_to_char(j - 1)
         IN  (IF atts[j].fetch = "ok"
                 THEN IdsOfFile(atts[j].content, atts[j].name, id)
                 ELSE <<id>>)
             \o IdsOfAttachments(atts, j + 1, print_id)

RECURSIVE IdsOfPrints(_, _, _)
IdsOfPrints(prints, p_i, roman_id) ==
    IF p_i > Len(prints) THEN <<>>
    ELSE LET print_id == roman_id \o "." \o ToString(p_i)
         IN  <<print_id>>
             \o (IF prints[p_i].meta = "ok"
                    THEN IdsOfAttachments(prints[p_i].attachments, 1, print_id)
                    ELSE <<>>)
             \o IdsOfPrints(prints, p_i + 1, roman_id)

DiscoveryOrder(proc, idx) ==
    <<get_roman(idx)>> \o IdsOfPrints(proc.prints, 1, get_roman(idx))

IdsOf(rows) == [k \in DOMAIN rows |-> rows[k].TREE_ID]

\* the orders in which the tasks of S can have been yielded
Orders(S) ==
    { o \in [1..Cardinality(S) -> S] : \A a, b \in DOMAIN o : a # b => o[a] # o[b] }

RECURSIVE RowsInOrder(_)
RowsInOrder(o) ==
    IF o = <<>> THEN <<>>
    ELSE futures[Head(o)].result.rows \o RowsInOrder(Tail(o))

\* C23: while the loop runs, the rows appended so far are the row lists of
\* the yielded tasks one after the other, never interleaved, each list in
\* discovery order; and the buffer is exactly what was appended since the
\* last flush: segments and buffer together are the appended rows in
\* their order, nothing removed or moved.
C23_RowOrder ==
    m_pc \in {"loop", "aborted"} =>
        /\ Flatten(segments) \o buffer_rows = appended
        /\ \E o \in Orders({ t \in collected : ~futures[t].result.raised }) :
              appended = RowsInOrder(o)
        /\ \A t \in DOMAIN futures :
              (futures[t].state = "done" /\ ~futures[t].result.raised)
                 => IdsOf(futures[t].result.rows)
                      = DiscoveryOrder(tasks[t].proc, tasks[t].idx)

\* the second task is yielded before the first, nothing flushed between
C23_Witness ==
    /\ m_pc = "loop"
    /\ collected = {1, 2}
    /\ tasks[1].proc = P_Zip
    /\ tasks[2].proc = P_Files
    /\ segments = <<>>
    /\ buffer_rows = futures[2].result.rows \o futures[1].result.rows
    /\ Len(futures[1].result.rows) = 8

(***************************************************************************)
(* The row buffer under concurrency, checked under SpecSteps               *)
(***************************************************************************)
\* a step of the main thread: its position in main changes
MainThreadStep == m_pc' # m_pc /\ futures' = futures

\* C24: with the pool threads running between any two lines of the loop,
\* every step that changes the row buffer, the segments or the batch
\* counter is a step of the main thread, never of a pool thread; and
\* between the write of a segment and the clearing of the buffer the
\* buffer holds exactly the rows just written, so no append falls between.
C24_BufferMutualExclusion ==
    /\ [][ (buffer_rows' # buffer_rows \/ segments' # segments
              \/ batch_counter' # batch_counter) => MainThreadStep ]_vars
    /\ [](m_pc = "saved" =>
            IF buffer_rows = <<>>
               THEN \A i \in DOMAIN segments :
                       segments[i].batch_idx # ToString(batch_counter)
               ELSE /\ segments # <<>>
                    /\ segments[Len(segments)].rows = buffer_rows
                    /\ segments[Len(segments)].batch_idx = ToString(batch_counter))

\* a segment is written, the buffer not yet cleared, and a pool thread has
\* meanwhile finished a task whose rows wait to be taken
C24_Witness ==
    /\ m_pc = "saved"
    /\ buffer_rows # <<>>
    /\ segments # <<>>
    /\ segments[Len(segments)].rows = buffer_rows
    /\ \E t \in DOMAIN futures :
          /\ futures[t].state = "done"
          /\ t \notin collected
          /\ futures[t].result.rows # <<>>
    /\ \E t \in DOMAIN futures : futures[t].state = "pending"

(***************************************************************************)
(* Exceptions inside the print loop, checked under SpecWorker              *)
(***************************************************************************)
\* handling the print raises: its metadata is no JSON, or one of its
\* attachments raises
PrintRaises(p) ==
    \/ p.meta = "raise"
    \/ p.meta = "ok" /\ \E j \in DOMAIN p.attachments : RaisesOn(p.attachments[j])

RaisingPrints(prints) == { i \in DOMAIN prints : PrintRaises(prints[i]) }

LastOf(S) == CHOOSE i \in S : \A j \in S : j <= i

\* C26: whichever prints raise, every print of the list has its row, in
\* list order; every attachment the loop got to before an exception of its
\* print, in the raising print and in all later ones, has its rows; the
\* returned rows are exactly the discovery order; and the header's status
\* is OK if and only if no print raised, else the error of the last print
\* that raised.
C26_ExceptionIsolationPerPrint ==
    wk_pc = "returned" =>
        LET prints == wk_proc.prints
            raising == RaisingPrints(prints)
        IN  /\ \A p_i \in DOMAIN prints :
                  /\ Cardinality(RowsWithId(wk_rows, PrintId(p_i))) = 1
                  /\ prints[p_i].meta = "ok" =>
                        \A j \in DOMAIN prints[p_i].attachments :
                           ( /\ ReachedAtt(prints[p_i].attachments, j)
                             /\ ~RaisesOn(prints[p_i].attachments[j]) )
                              => RowsWithId(wk_rows, FileId(p_i, j - 1)) # {}
            /\ IdsOf(wk_rows) = DiscoveryOrder(wk_proc, wk_idx)
            /\ (wk_rows[1].STATUS_SKANU = "OK") <=> (raising = {})
            /\ raising # {} =>
                  wk_rows[1].STATUS_SKANU
                     = "ERROR: " \o ErrorOf(prints[LastOf(raising)])

\* the first print raises after one attachment was scanned, the second
\* print raises on its metadata: both print rows and the file row are
\* there, the header holds the second error
C26_Witness ==
    /\ wk_pc = "returned"
    /\ Len(wk_proc.prints) = 2
    /\ wk_proc.prints[1].meta = "ok"
    /\ Len(wk_proc.prints[1].attachments) = 2
    /\ ~RaisesOn(wk_proc.prints[1].attachments[1])
    /\ wk_proc.prints[1].attachments[1].fetch = "ok"
    /\ RaisesOn(wk_proc.prints[1].attachments[2])
    /\ wk_proc.prints[2].meta = "raise"
    /\ Len(wk_rows) = 4
    /\ wk_rows[1].STATUS_SKANU = "ERROR: json"
    /\ wk_rows[3].TREE_ID = FileId(1, 0)
    /\ wk_rows[4].TREE_ID = PrintId(2)

(***************************************************************************)
(* Local files of the process downloader                                   *)
(***************************************************************************)
\* the attachment nodes that carry a local_path
Downloaded ==
    { i \in 1..Len(dl_attachments) : dl_attachments[i].local_path # NoPath }

\* the content of the file at a path, as a set (empty: no such file)
FileAt(path) == { f.content : f \in { g \in disk : g.path = path } }

\* C27: after build_tree, two attachment nodes that both have a local_path
\* name different files, and the file of every such node still holds what
\* was downloaded for that node (nothing was overwritten by a later
\* download).
C27_DistinctLocalFiles ==
    dl_pc = "done" =>
        /\ \A i, j \in Downloaded :
               i # j => dl_attachments[i].local_path
                            # dl_attachments[j].local_path
        /\ \A i \in Downloaded :
               FileAt(dl_attachments[i].local_path)
                   = {ContentOf(dl_attachments[i].download_url)}

====
